---- MODULE Spec2Model ----
(***************************************************************************)
(* State-machine model of the embedded document store of this repository:  *)
(* TMUDatabase (collections, indexes, debounced persistence) and its       *)
(* Collection class (insert, find, update, delete), translated from        *)
(* src/database/TMUDatabase.js.                                            *)
(***************************************************************************)
EXTENDS Integers, Sequences, FiniteSets, TLC

VARIABLES
    collections,    \* this.collections: name -> array of documents
    indexes,        \* this.indexes: name -> field -> {unique, data}
    writeBuffer,    \* this.writeBuffer: the names marked dirty
    writeTimeout,   \* this.writeTimeout: a timer handle, 0 for null
    timers,         \* the event loop's live timers: handle -> ms left
    files,          \* the data directory: name -> content of <name>.json
    backups,        \* the backup directory: name -> content of <name>.json
    defaults,       \* the array object the schema's default for a holds
    nextId,         \* the next id _generateId returns
    ret,            \* the outcome of the last call or event
    mutated,        \* names a call changed since the last flush event
    written,        \* writeFileSync calls per name in the last flush event
    logged,         \* names whose latest write threw, which was only logged
    out,            \* what the last call returned or threw: documents, errors
    tasks,          \* the async calls in flight: task -> where it stands
    log             \* the steps the Model calls took, in the order taken

\* What the Model calls and the calls in flight add to the store's state.
modelVars == <<out, tasks, log>>

vars == <<collections, indexes, writeBuffer, writeTimeout, timers, files,
          backups, defaults,
          nextId, ret, mutated, written, logged, out, tasks, log>>

\* ------------------------------------------------------------------ bounds
\* Most documents one collection holds.
MaxDocs == 2
\* Ids _generateId hands out in one run.
MaxGen == 3
\* Largest number stored in a field.
MaxVal == 2
\* Timer handles the event loop hands out before reusing one.
MaxTimers == 2
\* async calls in flight at a time
MaxTasks == 2
\* Documents in a collection that is sorted.
MaxSorted == 3
\* Ticks of the clock in one WRITE_DELAY.
DelayTicks == 2

\* ------------------------------------------------------------------ values
\* JavaScript values, tagged: undefined, a number, a string holding a
\* document id, an array, an object with the one key "b", a boolean, a Date
\* object and the ISO string JSON.stringify turns a Date into.
Undef == [t |-> "undef"]
Num(n) == [t |-> "num", n |-> n]
Id(i) == [t |-> "id", i |-> i]
Arr(s) == [t |-> "arr", s |-> s]
\* The array object a schema declares as a default, `default: []`: every
\* document that took the default holds this one object.
DefaultArr(s) == [t |-> "arr", s |-> s, of |-> "default"]
Obj(b) == [t |-> "obj", b |-> b]
Bool(x) == [t |-> "bool", tf |-> x]
Str(x) == [t |-> "str", str |-> x]
DateV == [t |-> "date"]
IsoV == [t |-> "iso"]
\* A function value, as _wrapDocument binds them to a document.
FnV == [t |-> "fn"]

\* The collections of the store: the Model constructor names a collection
\* after its model (name.toLowerCase() + 's').
Names == {"users", "posts"}

\* Keys of a stored document.
DocKeys == {"_id", "f", "a", "createdAt", "updatedAt"}
\* The properties _wrapDocument adds to every document it wraps; an
\* instance method of the schema is added in the same way.
Bindings == {"save", "toObject", "toJSON"}
\* The top-level key whose name is the text of a dotted path: an update
\* without operator assigns result['a.b'].
Dotted == {"a.b"}

\* Field paths (dot notation, split on '.') the model uses.
P_id == <<"_id">>
P_f == <<"f">>
P_a == <<"a">>
P_ab == <<"a", "b">>

\* JavaScript truthiness of a value (undefined, 0, false and the empty
\* string are falsy).
Truthy(v) == v # Undef /\ v # Num(0) /\ v # Bool(FALSE) /\ v # Str("")

\* typeof v === 'object' (arrays, plain objects and Dates).
IsObject(v) == v.t \in {"arr", "obj", "date"}

\* v[key] for a value below the top level: only a plain object carries keys.
Prop(v, key) == IF v.t = "obj" /\ key = "b" THEN v.b ELSE Undef

\* doc[key] of a document.
Field(doc, key) == IF key \in DOMAIN doc THEN doc[key] ELSE Undef

\* a === b: primitives compare by value, objects by identity; a value read
\* from a document is never the same object as a literal of a query.
StrictEq(v, w) == ~IsObject(v) /\ ~IsObject(w) /\ v = w

\* TMUDatabase._getNestedValue: walk the path, undefined as soon as the
\* current value is falsy or lacks the key.
_getNestedValue(doc, path) ==
    LET top == Field(doc, path[1])
    IN  IF Len(path) = 1 THEN top
        ELSE IF Truthy(top) THEN Prop(top, path[2]) ELSE Undef

\* ----------------------------------------------------------------- indexes
\* The ids of the documents of docs, in order, whose value at the path is
\* the key (Map keys compare by SameValueZero: by value for primitives).
IdsHolding(docs, path, key) ==
    LET held == SelectSeq(docs, LAMBDA d: _getNestedValue(d, path) = key)
    IN  [i \in 1..Len(held) |-> held[i]._id]

\* The Map an index holds after a rebuild: every value other than undefined
\* found at the path, mapped to the ids of the documents holding it.
IndexData(docs, path) ==
    LET keys == {_getNestedValue(docs[i], path) : i \in 1..Len(docs)} \ {Undef}
    IN  [k \in keys |-> IdsHolding(docs, path, k)]

\* TMUDatabase._rebuildIndexes(collectionName): every registered index of
\* the collection gets a new Map built from the documents.
_rebuildIndexes(idx, docs) ==
    [p \in DOMAIN idx |-> [unique |-> idx[p].unique, data |-> IndexData(docs, p)]]

\* Map.get(key) || [] on an index's data.
IndexGet(data, key) == IF key \in DOMAIN data THEN data[key] ELSE <<>>

\* The index update of insertOne: the new document's id is appended to the
\* list its value maps to, in every index, without a rebuild.
IndexAdd(idx, newDoc) ==
    [p \in DOMAIN idx |->
        LET value == _getNestedValue(newDoc, p)
            data == idx[p].data
        IN  IF value = Undef THEN idx[p]
            ELSE [unique |-> idx[p].unique,
                  data |-> [k \in DOMAIN data \cup {value} |->
                              IF k = value
                              THEN Append(IndexGet(data, value), newDoc._id)
                              ELSE data[k]]]]

\* The unique-index check of insertOne: some unique index already has the
\* new document's value as a key.
DuplicateKey(idx, newDoc) ==
    \E p \in DOMAIN idx :
        /\ idx[p].unique
        /\ _getNestedValue(newDoc, p) # Undef
        /\ _getNestedValue(newDoc, p) \in DOMAIN idx[p].data

\* ------------------------------------------------------------- persistence
\* Handles setTimeout can return.
TimerIds == 1..MaxTimers

\* this.WRITE_DELAY, in ms.
WRITE_DELAY == 100

\* One tick of the clock, in ms.
TickMs == WRITE_DELAY \div DelayTicks

\* setTimeout: the handle of the new timer, the first that names no live
\* timer (the handle of a timer that fired or was cleared is garbage).
NewTimer(live) ==
    CHOOSE i \in TimerIds : i \notin live /\ \A j \in TimerIds \ live : i <= j

\* clearTimeout(handle): the timer, if still live, is cancelled.
ClearTimeout(tm, handle) == [i \in DOMAIN tm \ {handle} |-> tm[i]]

\* The store's in-memory state as one record, so that a handler that calls
\* other handlers is the composition of their effects.
DB == [collections |-> collections, indexes |-> indexes,
       writeBuffer |-> writeBuffer, writeTimeout |-> writeTimeout,
       timers |-> timers, nextId |-> nextId]

\* _saveCollection and flush() as they would be without clearTimeout: the
\* timer writeTimeout names stays live.
KeptTimers(db) == db.timers

\* this.writeTimeout is set and clearTimeout is called on it.
ClearedTimers(db) ==
    IF db.writeTimeout # 0 THEN ClearTimeout(db.timers, db.writeTimeout)
    ELSE db.timers

\* A free handle is left for the timer _saveCollection starts.
CanSave(db) ==
    \E i \in TimerIds : i \notin DOMAIN ClearedTimers(db)

\* _saveCollection as it would be without its setTimeout: the collection
\* is marked dirty and the timer cleared, and no timer is started.
_saveCollectionUnarmed(db, name) ==
    [db EXCEPT !.writeBuffer = @ \cup {name},
               !.timers = ClearedTimers(db)]

\* TMUDatabase._saveCollection(name): the collection is marked dirty, the
\* timer writeTimeout names is cleared and a new one of WRITE_DELAY started.
_saveCollection(db, name) ==
    LET cleared == ClearedTimers(db)
        h == NewTimer(DOMAIN cleared)
    IN  [db EXCEPT !.writeBuffer = @ \cup {name},
                   !.writeTimeout = h,
                   !.timers = [i \in DOMAIN cleared \cup {h} |->
                                 IF i = h THEN WRITE_DELAY ELSE cleared[i]]]

\* this._indexes: the collection's indexes, or {} when none was ever
\* registered for the name.
IndexesOf(db, c) == IF c \in DOMAIN db.indexes THEN db.indexes[c] ELSE <<>>

\* The indexes of the store with those of collection c replaced; the {} a
\* collection without registered indexes gets from this._indexes is a
\* temporary and is not stored.
SetIndexes(db, c, idx) ==
    IF c \in DOMAIN db.indexes THEN [db.indexes EXCEPT ![c] = idx]
    ELSE db.indexes

\* ------------------------------------------------------------------ insert
\* The document insertOne builds: a generated id unless the caller's
\* document carries its own, the caller's fields, and Date timestamps unless
\* the caller gave truthy ones.
NewDoc(doc, gen) ==
    [_id |-> IF doc._id # Undef THEN doc._id ELSE Id(gen),
     f |-> doc.f,
     a |-> doc.a,
     createdAt |-> IF Truthy(doc.createdAt) THEN doc.createdAt ELSE DateV,
     updatedAt |-> IF Truthy(doc.updatedAt) THEN doc.updatedAt ELSE DateV]
    @@ [k \in Bindings \cup Dotted |-> doc[k]]

\* Collection.insertOne(doc) on collection c: a duplicate on a unique index
\* throws before anything is written; otherwise the document is appended,
\* added to the indexes and the collection is scheduled for writing.
insertOne(db, c, doc) ==
    LET newDoc == NewDoc(doc, db.nextId)
        used == IF doc._id = Undef THEN db.nextId + 1 ELSE db.nextId
    IN  IF DuplicateKey(IndexesOf(db, c), newDoc)
        THEN [db |-> db, st |-> "DuplicateKey", n |-> 0]
        ELSE [db |-> _saveCollection(
                        [db EXCEPT !.collections[c] = Append(@, newDoc),
                                   !.indexes = SetIndexes(db, c, IndexAdd(IndexesOf(db, c), newDoc)),
                                   !.nextId = used], c),
              st |-> "ok", n |-> 1]

\* Collection.insertMany(docs): insertOne per document, in order; the first
\* one that throws ends the loop and the call.
RECURSIVE InsertEach(_, _, _, _)
InsertEach(db, c, docs, n) ==
    IF docs = <<>> THEN [db |-> db, st |-> "ok", n |-> n]
    ELSE LET r == insertOne(db, c, Head(docs))
         IN  IF r.st # "ok" THEN [db |-> r.db, st |-> r.st, n |-> n]
             ELSE InsertEach(r.db, c, Tail(docs), n + 1)

insertMany(db, c, docs) == InsertEach(db, c, docs, 0)

\* ------------------------------------------------------------------- query
\* A filter is the sequence of its entries, in key order; an entry is a
\* literal ("lit": field equals value) or one operator of an operator
\* sub-map: [path, op, v].
Lit(path, v) == [path |-> path, op |-> "lit", v |-> v]
Cond(path, op, v) == [path |-> path, op |-> op, v |-> v]

\* a < b of JavaScript on the model's values: numbers by value, id strings
\* in string order; anything compared with undefined or an object is false.
Less(v, w) ==
    \/ v.t = "num" /\ w.t = "num" /\ v.n < w.n
    \/ v.t = "id" /\ w.t = "id" /\ v.i < w.i
LessEq(v, w) ==
    \/ v.t = "num" /\ w.t = "num" /\ v.n <= w.n
    \/ v.t = "id" /\ w.t = "id" /\ v.i <= w.i

\* One entry of Collection._matchDocument: the literal branch (value !==
\* condition fails the match) and the cases of the operator switch.
MatchEntry(doc, e) ==
    LET value == _getNestedValue(doc, e.path)
    IN  CASE e.op = "lit" -> StrictEq(value, e.v)
          [] e.op = "$eq" -> StrictEq(value, e.v)
          [] e.op = "$ne" -> ~StrictEq(value, e.v)
          [] e.op = "$gt" -> Less(e.v, value)
          [] e.op = "$gte" -> LessEq(e.v, value)
          [] e.op = "$lt" -> Less(value, e.v)
          [] e.op = "$lte" -> LessEq(value, e.v)
          [] e.op = "$in" -> \E x \in e.v : StrictEq(value, x)
          [] e.op = "$nin" -> ~\E x \in e.v : StrictEq(value, x)
          [] e.op = "$exists" -> (value # Undef) = e.v.tf

\* Collection._matchDocument(doc, query): every entry holds.
_matchDocument(doc, query) ==
    \A k \in 1..Len(query) : MatchEntry(doc, query[k])

\* The entries of a query _matchQuery can serve from an index: a literal
\* that is not an object (typeof value !== 'object') on an indexed field.
IndexedEntries(idx, query) ==
    {k \in 1..Len(query) :
        /\ query[k].op = "lit"
        /\ ~IsObject(query[k].v)
        /\ query[k].path \in DOMAIN idx}

\* Collection._matchQuery(query): all documents for the empty query; for the
\* first entry an index serves, the documents whose id the index lists under
\* the value, filtered by the whole query; otherwise a scan.
_matchQuery(docs, idx, query) ==
    IF query = <<>> THEN docs
    ELSE IF IndexedEntries(idx, query) # {}
    THEN LET k == CHOOSE j \in IndexedEntries(idx, query) :
                      \A j2 \in IndexedEntries(idx, query) : j <= j2
             ids == IndexGet(idx[query[k].path].data, query[k].v)
             idSet == {ids[i] : i \in 1..Len(ids)}
             indexed == SelectSeq(docs, LAMBDA d: d._id \in idSet)
         IN  SelectSeq(indexed, LAMBDA d: _matchDocument(d, query))
    ELSE SelectSeq(docs, LAMBDA d: _matchDocument(d, query))

\* Collection.find(query) without options.
find(db, c, query) == _matchQuery(db.collections[c], IndexesOf(db, c), query)

\* this._data.findIndex(d => d._id === id): the first position holding the
\* id, 0 for -1.
FindIndex(docs, id) ==
    IF \E i \in 1..Len(docs) : StrictEq(docs[i]._id, id)
    THEN CHOOSE i \in 1..Len(docs) :
            /\ StrictEq(docs[i]._id, id)
            /\ \A j \in 1..(i - 1) : ~StrictEq(docs[j]._id, id)
    ELSE 0

\* ------------------------------------------------------------------ update
\* An update description is the sequence of its (operator, field, value)
\* entries in the order Object.entries walks them.
Upd(op, path, v) == [op |-> op, path |-> path, v |-> v]

\* The state of one _applyUpdate call: res is the shallow copy { ...doc },
\* orig the stored document, shared the top-level keys whose value is still
\* the same object in both, threw whether a TypeError was raised.
StartCtx(doc) ==
    [res |-> doc, orig |-> doc,
     shared |-> {k \in DOMAIN doc : IsObject(doc[k])},
     threw |-> FALSE]

\* A _setNestedValue that writes nothing.
_setNestedValueDropped(ctx, path, value) == ctx

\* Collection._setNestedValue(result, path, value). A one-key path assigns
\* on the copy. A two-key path creates {} on the copy when the first key is
\* falsy, and otherwise writes into the object found there, which is the
\* stored document's own object while the key is shared; writing a property
\* on a primitive throws (class bodies are strict code).
_setNestedValue(ctx, path, value) ==
    LET k == path[1]
        cur == Field(ctx.res, k)
    IN  IF Len(path) = 1
        THEN [ctx EXCEPT !.res[k] = value, !.shared = @ \ {k}]
        ELSE IF ~Truthy(cur)
        THEN [ctx EXCEPT !.res[k] = Obj(value), !.shared = @ \ {k}]
        ELSE IF cur.t = "obj"
        THEN [ctx EXCEPT !.res[k] = Obj(value),
                         !.orig[k] = IF k \in ctx.shared THEN Obj(value) ELSE @]
        ELSE IF cur.t \in {"arr", "date"}
        THEN ctx
        ELSE [ctx EXCEPT !.threw = TRUE]

\* Collection._deleteNestedValue(result, path): delete on the copy, or in
\* the object found at the first key.
_deleteNestedValue(ctx, path) ==
    LET k == path[1]
        cur == Field(ctx.res, k)
    IN  IF Len(path) = 1
        THEN [ctx EXCEPT !.res[k] = Undef, !.shared = @ \ {k}]
        ELSE IF Truthy(cur) /\ cur.t = "obj"
        THEN [ctx EXCEPT !.res[k] = Obj(Undef),
                         !.orig[k] = IF k \in ctx.shared THEN Obj(Undef) ELSE @]
        ELSE ctx

\* A write into an object the copy already holds (current.push(...) on the
\* array found at the path): the stored document sees it while the first
\* key is shared, and the key stays shared.
WriteThrough(ctx, path, value) ==
    LET k == path[1]
        new == IF Len(path) = 1 THEN value ELSE Obj(value)
    IN  [ctx EXCEPT !.res[k] = new,
                    !.orig[k] = IF k \in ctx.shared THEN new ELSE @]

\* The key an update carries for a path: the keys joined by dots.
JoinPath(path) ==
    IF Len(path) = 1 THEN path[1] ELSE path[1] \o "." \o path[2]

\* current.filter(item => item !== value), for a value that is no object.
Without(s, value) == SelectSeq(s, LAMBDA item : ~StrictEq(item, value))

\* current.includes(value).
Includes(s, value) == \E i \in 1..Len(s) : StrictEq(s[i], value)

\* One entry of the operator switch of Collection._applyUpdate. An entry
\* whose key is no operator assigns the value to the key as it is written. Reading
\* value.$each of an undefined value throws. $push and $addToSet on a
\* value that is truthy and not an array throw (it has no push method);
\* on an array they push into the array found, the stored one while shared,
\* $addToSet only when the array does not include the value. $pull sets a
\* new array, the array found without the items equal to the value; on a
\* truthy value that is no array it throws (it has no filter method).
ApplyEntry(ctx, e) ==
    LET current == _getNestedValue(ctx.res, e.path)
    IN  CASE e.op = "$set" -> _setNestedValue(ctx, e.path, e.v)
          [] e.op = "$unset" -> _deleteNestedValue(ctx, e.path)
          [] e.op = "$inc" ->
                _setNestedValue(ctx, e.path,
                    IF Truthy(current) THEN Num(current.n + e.v.n) ELSE e.v)
          [] e.op = "$push" ->
                IF e.v = Undef THEN [ctx EXCEPT !.threw = TRUE]
                ELSE IF ~Truthy(current)
                THEN _setNestedValue(ctx, e.path, Arr(<<e.v>>))
                ELSE IF current.t = "arr"
                THEN WriteThrough(ctx, e.path,
                                  [current EXCEPT !.s = Append(@, e.v)])
                ELSE [ctx EXCEPT !.threw = TRUE]
          [] e.op = "$pull" ->
                IF ~Truthy(current)
                THEN _setNestedValue(ctx, e.path, Arr(<<>>))
                ELSE IF current.t = "arr"
                THEN _setNestedValue(ctx, e.path, Arr(Without(current.s, e.v)))
                ELSE [ctx EXCEPT !.threw = TRUE]
          [] e.op = "$addToSet" ->
                IF ~Truthy(current)
                THEN _setNestedValue(ctx, e.path, Arr(<<e.v>>))
                ELSE IF current.t # "arr"
                THEN [ctx EXCEPT !.threw = TRUE]
                ELSE IF Includes(current.s, e.v)
                THEN WriteThrough(ctx, e.path, current)
                ELSE WriteThrough(ctx, e.path,
                                  [current EXCEPT !.s = Append(@, e.v)])
          [] e.op = "direct" ->
                [ctx EXCEPT !.res[JoinPath(e.path)] = e.v,
                            !.shared = @ \ {JoinPath(e.path)}]

\* Collection._applyUpdate(doc, update): the entries in order on a shallow
\* copy; a throw leaves the loop with whatever was written so far.
RECURSIVE ApplyEntries(_, _)
ApplyEntries(ctx, update) ==
    IF update = <<>> \/ ctx.threw THEN ctx
    ELSE ApplyEntries(ApplyEntry(ctx, Head(update)), Tail(update))

_applyUpdate(doc, update) == ApplyEntries(StartCtx(doc), update)

\* The three lines every update handler runs on one position: apply the
\* update, stamp updatedAt, store the result. When _applyUpdate throws the
\* stored document keeps what was written into its own objects.
UpdateAt(docs, index, update) ==
    LET ctx == _applyUpdate(docs[index], update)
    IN  IF ctx.threw
        THEN [docs |-> [docs EXCEPT ![index] = ctx.orig], threw |-> TRUE]
        ELSE [docs |-> [docs EXCEPT ![index] = [ctx.res EXCEPT !.updatedAt = DateV]],
              threw |-> FALSE]

\* The tail of every successful mutation: rebuild the collection's indexes
\* and schedule the write.
RebuildAndSave(db, c, docs) ==
    _saveCollection(
        [db EXCEPT !.collections[c] = docs,
                   !.indexes = SetIndexes(db, c, _rebuildIndexes(IndexesOf(db, c), docs))],
        c)

\* Collection.updateOne after its await of findOne, which gave found (<<>>
\* for null): the document found is looked up again by id in the data as
\* they are now, updated and stored.
UpdateFound(db, c, found, update) ==
    LET docs == db.collections[c]
        index == IF found = <<>> THEN 0 ELSE FindIndex(docs, found[1]._id)
        u == UpdateAt(docs, index, update)
    IN  IF index = 0 THEN [db |-> db, st |-> "ok", n |-> 0]
        ELSE IF u.threw
        THEN [db |-> [db EXCEPT !.collections[c] = u.docs], st |-> "TypeError", n |-> 0]
        ELSE [db |-> RebuildAndSave(db, c, u.docs), st |-> "ok", n |-> 1]

\* Collection.updateOne(query, update), when nothing runs between its call
\* and its return.
updateOne(db, c, query, update) ==
    UpdateFound(db, c, find(db, c, query), update)

\* Collection.findByIdAndUpdate(id, update).
findByIdAndUpdate(db, c, id, update) ==
    LET docs == db.collections[c]
        index == FindIndex(docs, id)
        u == UpdateAt(docs, index, update)
    IN  IF index = 0 THEN [db |-> db, st |-> "ok", n |-> 0]
        ELSE IF u.threw
        THEN [db |-> [db EXCEPT !.collections[c] = u.docs], st |-> "TypeError", n |-> 0]
        ELSE [db |-> RebuildAndSave(db, c, u.docs), st |-> "ok", n |-> 1]

\* Collection.updateMany(query, update): the documents found at the start,
\* each looked up again by id and updated in turn; a throw ends the call
\* with the earlier documents already replaced, before any rebuild or save.
RECURSIVE UpdateEach(_, _, _, _)
UpdateEach(docs, found, update, n) ==
    IF found = <<>> THEN [docs |-> docs, threw |-> FALSE, n |-> n]
    ELSE LET index == FindIndex(docs, Head(found)._id)
             u == UpdateAt(docs, index, update)
         IN  IF index = 0 THEN UpdateEach(docs, Tail(found), update, n)
             ELSE IF u.threw THEN [docs |-> u.docs, threw |-> TRUE, n |-> n]
             ELSE UpdateEach(u.docs, Tail(found), update, n + 1)

updateMany(db, c, query, update) ==
    LET r == UpdateEach(db.collections[c], find(db, c, query), update, 0)
    IN  IF r.threw
        THEN [db |-> [db EXCEPT !.collections[c] = r.docs], st |-> "TypeError", n |-> r.n]
        ELSE IF r.n > 0
        THEN [db |-> RebuildAndSave(db, c, r.docs), st |-> "ok", n |-> r.n]
        ELSE [db |-> db, st |-> "ok", n |-> 0]

\* ------------------------------------------------------------------ delete
\* docs without its element at position index (splice(index, 1)).
RemoveAt(docs, index) ==
    [i \in 1..(Len(docs) - 1) |-> IF i < index THEN docs[i] ELSE docs[i + 1]]

\* Collection.deleteOne after its await of findOne, which gave found (<<>>
\* for null): the document found is looked up again by id in the data as
\* they are now and spliced out.
DeleteFound(db, c, found) ==
    LET docs == db.collections[c]
        index == IF found = <<>> THEN 0 ELSE FindIndex(docs, found[1]._id)
    IN  IF index = 0 THEN [db |-> db, st |-> "ok", n |-> 0]
        ELSE [db |-> RebuildAndSave(db, c, RemoveAt(docs, index)), st |-> "ok", n |-> 1]

\* Collection.deleteOne(query), when nothing runs between its call and its
\* return.
deleteOne(db, c, query) == DeleteFound(db, c, find(db, c, query))

\* Collection.deleteMany(query): every document whose id is the id of a
\* document found is filtered out.
deleteMany(db, c, query) ==
    LET docs == db.collections[c]
        found == find(db, c, query)
        idsToDelete == {found[i]._id : i \in 1..Len(found)}
        kept == SelectSeq(docs, LAMBDA d: d._id \notin idsToDelete)
        deletedCount == Len(docs) - Len(kept)
    IN  IF deletedCount > 0
        THEN [db |-> RebuildAndSave(db, c, kept), st |-> "ok", n |-> deletedCount]
        ELSE [db |-> db, st |-> "ok", n |-> 0]

\* ------------------------------------------------------------------- files
\* JSON.stringify of a value and JSON.parse of the text: a Date comes back
\* as its ISO string, a property holding a function is left out, everything
\* else the model stores as it was.
JsonLeaf(v) == IF v = DateV THEN IsoV ELSE IF v = FnV THEN Undef ELSE v
JsonValue(v) ==
    CASE v.t = "obj" -> Obj(JsonLeaf(v.b))
      [] v.t = "arr" -> Arr([i \in 1..Len(v.s) |-> JsonLeaf(v.s[i])])
      [] OTHER -> JsonLeaf(v)
JsonDoc(doc) == [k \in DOMAIN doc |-> JsonValue(doc[k])]
JsonDocs(docs) == [i \in 1..Len(docs) |-> JsonDoc(docs[i])]

\* What fs.writeFileSync can do: write the text, or throw leaving the file
\* as it was ("kept") or cut short ("cut").
WriteOutcomes == {"ok", "kept", "cut"}

\* The content of the directory after _flushWrites wrote the dirty
\* collections with the given outcome per name.
FilesAfter(outcome) ==
    LET touched == {n \in writeBuffer : outcome[n] # "kept"}
    IN  [n \in DOMAIN files \cup touched |->
            IF n \in touched
            THEN IF outcome[n] = "ok"
                 THEN [t |-> "json", docs |-> JsonDocs(collections[n])]
                 ELSE [t |-> "corrupt"]
            ELSE files[n]]

\* A _flushWrites that gives up at the first failed write: nothing is
\* written and the dirty set is kept.
_flushWritesAbort(outcome) ==
    LET failed == {n \in writeBuffer : outcome[n] # "ok"}
    IN  /\ files' = IF failed = {} THEN FilesAfter(outcome) ELSE files
        /\ writeBuffer' = IF failed = {} THEN {} ELSE writeBuffer
        /\ written' = [n \in Names |-> IF n \in writeBuffer THEN 1 ELSE 0]
        /\ logged' = (logged \ writeBuffer) \cup failed
        /\ mutated' = IF failed = {} THEN {} ELSE mutated

\* TMUDatabase._flushWrites(): one writeFileSync per dirty name, a failure
\* only logged; then the dirty set is emptied.
_flushWrites(outcome) ==
    /\ files' = FilesAfter(outcome)
    /\ writeBuffer' = {}
    /\ written' = [n \in Names |-> IF n \in writeBuffer THEN 1 ELSE 0]
    /\ logged' = (logged \ writeBuffer)
                    \cup {n \in writeBuffer : outcome[n] # "ok"}
    /\ mutated' = {}

\* ------------------------------------------------------------ construction
\* An index as createIndex registers it on a collection without documents.
NewIndex(unique) == [unique |-> unique, data |-> <<>>]

\* The indexes the Model constructor creates: one per index the schema
\* declares, and the unique index on _id. Two schemas for "users": a unique
\* field f; or a plain index on f and a unique one on the path a.b.
SchemaA == (P_id :> NewIndex(TRUE)) @@ (P_f :> NewIndex(TRUE))
SchemaB == (P_id :> NewIndex(TRUE)) @@ (P_f :> NewIndex(FALSE))
              @@ (P_ab :> NewIndex(TRUE))
SchemaPosts == (P_id :> NewIndex(TRUE))
UserSchemas == {SchemaA, SchemaB}

\* new TMUDatabase(dbPath) on a new directory, then one Model per name,
\* that of "users" with the schema sch.
Opened(sch) ==
    /\ collections = [c \in Names |-> <<>>]
    /\ indexes = [c \in Names |-> IF c = "users" THEN sch ELSE SchemaPosts]
    /\ writeBuffer = {}
    /\ writeTimeout = 0
    /\ timers = <<>>
    /\ files = <<>>
    /\ backups = <<>>
    /\ defaults = DefaultArr(<<>>)
    /\ nextId = 1
    /\ ret = [op |-> "init", st |-> "ok", n |-> 0]
    /\ mutated = {}
    /\ written = [c \in Names |-> 0]
    /\ logged = {}
    /\ out = [docs |-> <<>>, errors |-> <<>>]
    /\ tasks = <<>>
    /\ log = <<>>

Init == \E sch \in UserSchemas : Opened(sch)

\* A store newly opened, as one record.
OpenedDB ==
    [collections |-> [c \in Names |-> <<>>],
     indexes |-> [c \in Names |-> IF c = "users" THEN SchemaA ELSE SchemaPosts],
     writeBuffer |-> {}, writeTimeout |-> 0, timers |-> <<>>, nextId |-> 1]

\* The lists of up to n elements of S.
RECURSIVE ListsOf(_, _)
ListsOf(S, n) ==
    IF n = 0 THEN {<<>>}
    ELSE LET shorter == ListsOf(S, n - 1)
         IN  shorter \cup {Append(s, x) : s \in shorter, x \in S}

\* The store after insertMany(docs) into collection c of a newly opened
\* store.
Loaded(c, docs) ==
    LET r == insertMany(OpenedDB, c, docs)
    IN  /\ collections = r.db.collections
        /\ indexes = r.db.indexes
        /\ writeBuffer = r.db.writeBuffer
        /\ writeTimeout = r.db.writeTimeout
        /\ timers = r.db.timers
        /\ nextId = r.db.nextId
        /\ files = <<>>
        /\ backups = <<>>
        /\ defaults = DefaultArr(<<>>)
        /\ ret = [op |-> "insertMany", st |-> r.st, n |-> r.n]
        /\ mutated = IF r.n > 0 THEN {c} ELSE {}
        /\ written = [d \in Names |-> 0]
        /\ logged = {}
        /\ out = [docs |-> <<>>, errors |-> <<>>]
        /\ tasks = <<>>
        /\ log = <<>>

\* ------------------------------------------------------------------ bounds
NumsOf(v) ==
    CASE v.t = "num" -> {v.n}
      [] v.t = "obj" -> IF v.b.t = "num" THEN {v.b.n} ELSE {}
      [] OTHER -> {}

\* The state stays within the bounds of the model.
WithinBounds(db) ==
    /\ db.nextId <= MaxGen + 1
    /\ \A c \in DOMAIN db.collections :
          /\ Len(db.collections[c]) <= MaxDocs
          /\ \A i \in 1..Len(db.collections[c]) :
                \A k \in DocKeys :
                    \A x \in NumsOf(db.collections[c][i][k]) : x <= MaxVal

\* ----------------------------------------------------------------- actions
\* The store takes the state a handler returned; a call that changed
\* documents counts as a mutation of its collection.
Commit(c, op, result) ==
    \E r \in {result} :
        /\ CanSave(DB)
        /\ WithinBounds(r.db)
        /\ collections' = r.db.collections
        /\ indexes' = r.db.indexes
        /\ writeBuffer' = r.db.writeBuffer
        /\ writeTimeout' = r.db.writeTimeout
        /\ timers' = r.db.timers
        /\ nextId' = r.db.nextId
        /\ ret' = [op |-> op, st |-> r.st, n |-> r.n]
        /\ mutated' = IF r.n > 0 \/ r.db.collections[c] # collections[c]
                       THEN mutated \cup {c} ELSE mutated
        /\ UNCHANGED <<files, backups, defaults, written, logged, modelVars>>

InsertOne(c, doc) == Commit(c, "insertOne", insertOne(DB, c, doc))
InsertMany(c, docs) == Commit(c, "insertMany", insertMany(DB, c, docs))
UpdateOne(c, q, u) == Commit(c, "updateOne", updateOne(DB, c, q, u))
UpdateMany(c, q, u) == Commit(c, "updateMany", updateMany(DB, c, q, u))
FindByIdAndUpdate(c, id, u) ==
    Commit(c, "findByIdAndUpdate", findByIdAndUpdate(DB, c, id, u))
DeleteOne(c, q) == Commit(c, "deleteOne", deleteOne(DB, c, q))
DeleteMany(c, q) == Commit(c, "deleteMany", deleteMany(DB, c, q))

\* ------------------------------------------------------------------ inputs
\* The ids of the documents a collection holds.
IdsIn(c) == {collections[c][i]._id : i \in 1..Len(collections[c])}

\* A caller's document: the fields it gives, undefined for the others.
Given(id, f, a) ==
    [_id |-> id, f |-> f, a |-> a, createdAt |-> Undef, updatedAt |-> Undef]
    @@ [k \in Bindings \cup Dotted |-> Undef]

\* Documents callers insert: with or without f and a; a document that
\* carries an _id carries that of a document it was copied from.
InsertDocs(c) ==
    {Given(Undef, f, a) : f \in {Undef, Num(1), Num(2)},
                          a \in {Undef, Obj(Num(1)), Obj(Num(2))}}
    \cup {Given(id, Undef, Undef) : id \in IdsIn(c)}

\* Batches callers insert: two documents with the same f, or with two.
InsertBatches ==
    {<<Given(Undef, Num(1), Undef), Given(Undef, f2, Undef)>> : f2 \in {Num(1), Num(2)}}

\* Filters of the mutating calls.
Queries == {<<>>, <<Lit(P_f, Num(1))>>, <<Lit(P_ab, Num(1))>>}
ManyQueries == {<<>>, <<Lit(P_f, Num(1))>>}

\* Update descriptions: one operator, or two of which the second throws
\* ($push on _id, a string).
SetF == <<Upd("$set", P_f, Num(2))>>
UnsetF == <<Upd("$unset", P_f, Undef)>>
SetAB == <<Upd("$set", P_ab, Num(2))>>
IncAB == <<Upd("$inc", P_ab, Num(1))>>
SetABThenThrow == <<Upd("$set", P_ab, Num(2)), Upd("$push", P_id, Num(1))>>
SetFThenThrow == <<Upd("$set", P_f, Num(2)), Upd("$push", P_id, Num(1))>>
SetId(id) == <<Upd("$set", P_id, id)>>
Updates == {SetF, UnsetF, SetAB, IncAB, SetABThenThrow, SetFThenThrow}
ManyUpdates == {SetF, IncAB, SetABThenThrow}
ByIdUpdates(c) == {SetAB, SetABThenThrow} \cup {SetId(id) : id \in IdsIn(c)}

\* The calls on one collection.
Calls(c) ==
    \/ \E doc \in InsertDocs(c) : InsertOne(c, doc)
    \/ \E docs \in InsertBatches : InsertMany(c, docs)
    \/ \E q \in Queries, u \in Updates : UpdateOne(c, q, u)
    \/ \E q \in ManyQueries, u \in ManyUpdates : UpdateMany(c, q, u)
    \/ \E id \in IdsIn(c), u \in ByIdUpdates(c) : FindByIdAndUpdate(c, id, u)
    \/ \E q \in Queries : DeleteOne(c, q)
    \/ \E q \in Queries : DeleteMany(c, q)

Next == Calls("users")

Spec == Init /\ [][Next]_vars

\* ------------------------------------------------------- timers and files
\* Time passes: every live timer comes one tick closer to firing.
Tick ==
    /\ \E i \in DOMAIN timers : timers[i] > 0
    /\ timers' = [i \in DOMAIN timers |->
                    IF timers[i] > TickMs THEN timers[i] - TickMs ELSE 0]
    /\ UNCHANGED <<collections, indexes, writeBuffer, writeTimeout, files,
                   backups, defaults,
                   nextId, ret, mutated, written, logged, modelVars>>

\* A timer started by _saveCollection fires: its callback is _flushWrites.
TimerFire(i, outcome) ==
    /\ i \in DOMAIN timers
    /\ timers[i] = 0
    /\ timers' = [j \in DOMAIN timers \ {i} |-> timers[j]]
    /\ _flushWrites(outcome)
    /\ ret' = [op |-> "timerFire", st |-> "ok", n |-> 0]
    /\ UNCHANGED <<collections, indexes, writeTimeout, nextId, backups, defaults,
                   modelVars>>

\* flush() as it would be without its clearTimeout: a pending timer stays.
FlushWithoutClear(outcome) ==
    /\ timers' = timers
    /\ _flushWrites(outcome)
    /\ ret' = [op |-> "flush", st |-> "ok", n |-> 0]
    /\ UNCHANGED <<collections, indexes, writeTimeout, nextId, backups, defaults,
                   modelVars>>

\* TMUDatabase.flush(): the timer writeTimeout names is cleared, then
\* _flushWrites runs.
Flush(outcome) ==
    /\ timers' = ClearedTimers(DB)
    /\ _flushWrites(outcome)
    /\ ret' = [op |-> "flush", st |-> "ok", n |-> 0]
    /\ UNCHANGED <<collections, indexes, writeTimeout, nextId, backups, defaults,
                   modelVars>>

\* A load that gives up on every collection when one file does not parse.
_loadCollectionAllOrNone(name) ==
    IF /\ name \in DOMAIN files
       /\ \A n \in DOMAIN files : files[n].t = "json"
    THEN files[name].docs
    ELSE <<>>

\* TMUDatabase._loadCollection(name): the parsed file; [] when the file is
\* absent or JSON.parse throws.
_loadCollection(name) ==
    IF name \in DOMAIN files /\ files[name].t = "json" THEN files[name].docs
    ELSE <<>>

\* The process ends, with or without a flush, and a new one starts on the
\* same directory: new TMUDatabase(dbPath) loads every file, then the Model
\* constructors create the schemas' indexes from the loaded documents.
Reopen ==
    /\ collections' = [c \in Names |-> _loadCollection(c)]
    /\ indexes' = [c \in Names |->
                     _rebuildIndexes(indexes[c], _loadCollection(c))]
    /\ writeBuffer' = {}
    /\ writeTimeout' = 0
    /\ timers' = <<>>
    /\ mutated' = {}
    /\ ret' = [op |-> "reopen", st |-> "ok", n |-> 0]
    /\ UNCHANGED <<files, backups, defaults, nextId, written, logged, modelVars>>

\* The calls of the persistence scenarios: on "users", inserts of a first
\* and a second document, an update, an update that throws after writing
\* into a nested object, and a delete of everything; on "posts", the insert
\* of a first document.
StoreDoc == Given(Undef, Undef, Obj(Num(1)))
StoreCalls ==
    \/ Len(collections["users"]) < 2 /\ InsertOne("users", StoreDoc)
    \/ collections["posts"] = <<>> /\ InsertOne("posts", StoreDoc)
    \/ \E u \in {SetAB, SetABThenThrow} : UpdateOne("users", <<>>, u)
    \/ DeleteMany("users", <<>>)

\* What writeFileSync does in the persistence scenarios: it writes the
\* file, or throws and leaves the file as it was.
StoreOutcomes == [writeBuffer -> {"ok", "kept"}]

StoreNext ==
    \/ StoreCalls
    \/ Tick
    \/ \E i \in TimerIds : \E outcome \in StoreOutcomes : TimerFire(i, outcome)
    \/ \E outcome \in StoreOutcomes : Flush(outcome)
    \/ Reopen

\* The event loop runs a due timer, and time passes.
StoreFairness ==
    /\ WF_vars(Tick)
    /\ WF_vars(\E i \in TimerIds : \E outcome \in StoreOutcomes :
                  TimerFire(i, outcome))

\* The persistence scenarios start with the schema of top-level indexes.
StoreInit == Opened(SchemaA)

StoreSpec == StoreInit /\ [][StoreNext]_vars /\ StoreFairness

\* ------------------------------------------------------------------ claims
\* The calls that change documents.
MutatingOps ==
    {"insertOne", "insertMany", "updateOne", "updateMany", "findByIdAndUpdate",
     "deleteOne", "deleteMany"}

\* C1: no two documents of a collection have the same _id, after any
\* sequence of inserts (also of documents carrying their own _id), updates
\* (also updates that $set the _id) and deletes.
C1_UniqueIds ==
    \A c \in DOMAIN collections :
        \A i, j \in 1..Len(collections[c]) :
            i # j => collections[c][i]._id # collections[c][j]._id

\* C2: when a mutating call has returned, every registered index of every
\* collection equals the index a full rebuild from the documents gives.
C2_IndexesMatchRebuild ==
    (ret.op \in MutatingOps /\ ret.st = "ok") =>
        \A c \in DOMAIN indexes :
            indexes[c] = _rebuildIndexes(indexes[c], collections[c])

\* Some document of the collection holds, on a uniquely indexed field, the
\* value the document to insert has there.
HoldsUniqueValue(c, doc) ==
    \E p \in DOMAIN indexes[c] :
        /\ indexes[c][p].unique
        /\ _getNestedValue(NewDoc(doc, nextId), p) # Undef
        /\ \E i \in 1..Len(collections[c]) :
              _getNestedValue(collections[c][i], p)
                  = _getNestedValue(NewDoc(doc, nextId), p)

\* C3: insertOne of a document whose value on a uniquely indexed field is
\* held by a document of the collection fails with a duplicate-key error
\* and leaves documents, indexes and dirty set as they were.
C3_DuplicateInsertRejected ==
    [][\A doc \in InsertDocs("users") :
          (InsertOne("users", doc) /\ HoldsUniqueValue("users", doc)) =>
              /\ ret'.st = "DuplicateKey"
              /\ UNCHANGED <<collections, indexes, writeBuffer>>]_vars

\* C4: insertMany is all-or-nothing: a batch that fails with a duplicate-key
\* error leaves none of its documents in the collection.
C4_InsertManyAllOrNothing ==
    [][(ret'.op = "insertMany" /\ ret'.st = "DuplicateKey") =>
          collections' = collections]_vars

\* C5: one update call on one document is atomic: when applying an operator
\* fails, the stored documents are identical, nested objects included, to
\* those before the call; otherwise every operator was applied.
C5_UpdateAtomic ==
    [][(ret'.op \in {"updateOne", "findByIdAndUpdate"} /\ ret'.st = "TypeError") =>
          collections' = collections]_vars

\* Filters find is called with: equality on a value, on undefined, operator
\* conditions, and several conditions together.
FindFilters ==
    {<<Lit(P_f, v)>> : v \in {Undef, Num(1), Num(2)}}
    \cup {<<Lit(P_ab, v)>> : v \in {Undef, Num(1)}}
    \cup {<<Cond(P_f, op, Num(1))>> : op \in {"$gt", "$gte", "$lt", "$ne"}}
    \cup {<<Cond(P_f, "$exists", Bool(b))>> : b \in BOOLEAN}
    \cup {<<Cond(P_f, "$gte", Num(1)), Lit(P_ab, Num(1))>>,
          <<Lit(P_f, Num(1)), Lit(P_ab, Num(1))>>}

\* C10: find returns exactly the documents satisfying the filter, in
\* insertion order, the same with the collection's indexes as without any.
C10_FindSameWithIndex ==
    \A c \in DOMAIN collections :
        \A q \in FindFilters :
            /\ find(DB, c, q) = _matchQuery(collections[c], <<>>, q)
            /\ find(DB, c, q)
                  = SelectSeq(collections[c], LAMBDA d: _matchDocument(d, q))

\* The file of c holds the JSON text of the documents mem holds for c.
FileHolds(fs, mem, c) ==
    /\ c \in DOMAIN fs
    /\ fs[c] = [t |-> "json", docs |-> JsonDocs(mem[c])]

\* A step that is a call of flush().
FlushCall == \E outcome \in StoreOutcomes : Flush(outcome)

\* A step that is a flush event: the debounce timer firing, or flush().
FlushEvent ==
    \/ FlushCall
    \/ \E i \in TimerIds : \E outcome \in StoreOutcomes : TimerFire(i, outcome)

\* C6 as stated: when flush() returns the dirty set is empty, no timer is
\* pending, and the file of every collection that was dirty equals the
\* collection in memory.
C6_FlushLeavesNothingBuffered ==
    [][FlushCall =>
          /\ writeBuffer' = {}
          /\ DOMAIN timers' = {}
          /\ \A c \in writeBuffer : FileHolds(files', collections', c)]_vars

\* C6 amended: when flush() returns the dirty set is empty and no timer is
\* pending; the file of every collection that was dirty equals the
\* collection in memory unless writing it failed, which flush() only logs.
C6_FlushWritesUnlessWriteFails ==
    [][FlushCall =>
          /\ writeBuffer' = {}
          /\ DOMAIN timers' = {}
          /\ \A c \in writeBuffer \ logged' :
                FileHolds(files', collections', c)]_vars

\* flush() returned with a timer cancelled, one dirty collection written
\* and the write of the other failed.
C6_Witness ==
    /\ ret.op = "flush"
    /\ written = [c \in Names |-> 1]
    /\ logged = {"posts"}
    /\ collections["users"] # <<>>
    /\ FileHolds(files, collections, "users")
    /\ ~FileHolds(files, collections, "posts")
    /\ writeTimeout # 0
    /\ DOMAIN timers = {}

\* C7: a store opened on the directory right after a flush(), no
\* collection's latest write having failed, holds, for every collection,
\* the documents that were in memory, in the same order (as JSON carries
\* them).
C7_ReopenAfterFlush ==
    [][(Reopen /\ ret.op = "flush" /\ logged = {}) =>
          \A c \in Names : collections'[c] = JsonDocs(collections[c])]_vars

\* A step in which a call changed a collection and restarted the timer.
Mutation ==
    /\ ret'.n > 0
    /\ \E i \in DOMAIN timers' : timers'[i] = WRITE_DELAY

\* The last step was a flush event that wrote c, or the process ended.
WriteAttempted(c) ==
    \/ ret.op \in {"timerFire", "flush"} /\ written[c] = 1
    \/ ret.op = "reopen"

C9_OneWritePerWindow ==
    [][IF FlushEvent
       THEN \A c \in Names : written'[c] = (IF c \in mutated THEN 1 ELSE 0)
       ELSE files' = files /\ written' = written]_vars

\* ------------------------------------------------------------------- model
\* A field's rules in a schema definition; undefined for a rule not given.
Rules(field, type, required, lowercase, default, min, max) ==
    [field |-> field, type |-> type, required |-> required,
     lowercase |-> lowercase, default |-> default, min |-> min, max |-> max]

\* The schema definition of the "users" Model, in the order of its keys:
\* a required number f of at least 1, and a lower-cased string a that
\* defaults to "A".
UserDefinition ==
    << Rules("f", "Number", TRUE, FALSE, Undef, Num(1), Undef),
       Rules("a", "String", FALSE, TRUE, Str("A"), Undef, Undef) >>

\* typeof value.
TypeOf(v) ==
    CASE v.t = "undef" -> "undefined"
      [] v.t = "num" -> "number"
      [] v.t \in {"str", "id", "iso"} -> "string"
      [] v.t = "bool" -> "boolean"
      [] OTHER -> "object"

\* String.prototype.toLowerCase on the strings of the model.
ToLowerCase(x) == IF x = "A" THEN "a" ELSE IF x = "B" THEN "b" ELSE x

\* Model._applyDefaults(doc): a field that is undefined takes the default
\* its rules give.
RECURSIVE _applyDefaults(_, _)
_applyDefaults(doc, definition) ==
    IF definition = <<>> THEN doc
    ELSE LET r == Head(definition)
             next == IF doc[r.field] = Undef /\ r.default # Undef
                     THEN [doc EXCEPT ![r.field] = r.default]
                     ELSE doc
         IN  _applyDefaults(next, Tail(definition))

\* Model._transform(doc): a string field whose rules say lowercase is
\* lower-cased.
RECURSIVE _transform(_, _)
_transform(doc, definition) ==
    IF definition = <<>> THEN doc
    ELSE LET r == Head(definition)
             v == doc[r.field]
             next == IF v.t = "str" /\ r.lowercase
                     THEN [doc EXCEPT ![r.field] = Str(ToLowerCase(v.str))]
                     ELSE doc
         IN  _transform(next, Tail(definition))

\* One entry of the errors list of _validate.
FieldError(field, rule) == [field |-> field, rule |-> rule]

\* The number the comparison operators turn a length bound into: a number
\* is itself; an array goes through its text, which is a number only for
\* an empty array (0) and for an array of one number.
NaN == [t |-> "nan"]
ToNumber(v) ==
    CASE v.t = "num" -> v
      [] v.t = "arr" -> IF v.s = <<>> THEN Num(0)
                        ELSE IF Len(v.s) = 1 /\ v.s[1].t = "num" THEN v.s[1]
                        ELSE NaN
      [] OTHER -> NaN

\* n < bound and n > bound as JavaScript evaluates them: false when the
\* bound is not a number.
LengthBelow(n, bound) == ToNumber(bound).t = "num" /\ n < ToNumber(bound).n
LengthAbove(n, bound) == ToNumber(bound).t = "num" /\ n > ToNumber(bound).n

\* The errors _validate pushes for one field: "required" alone for a
\* missing or empty required value, nothing for another missing value,
\* otherwise the type, minlength, maxlength, min and max errors in this
\* order.
FieldErrors(r, value) ==
    IF r.required /\ value \in {Undef, Str("")}
    THEN <<FieldError(r.field, "required")>>
    ELSE IF value = Undef THEN <<>>
    ELSE (IF \/ r.type = "String" /\ TypeOf(value) # "string"
             \/ r.type = "Number" /\ TypeOf(value) # "number"
             \/ r.type = "Array" /\ value.t # "arr"
          THEN <<FieldError(r.field, "type")>> ELSE <<>>)
         \o (IF /\ value.t = "str"
                 /\ Truthy(Field(r, "minlength"))
                 /\ LengthBelow(Len(value.str), Field(r, "minlength"))
             THEN <<FieldError(r.field, "minlength")>> ELSE <<>>)
         \o (IF /\ value.t = "str"
                 /\ Truthy(Field(r, "maxlength"))
                 /\ LengthAbove(Len(value.str), Field(r, "maxlength"))
             THEN <<FieldError(r.field, "maxlength")>> ELSE <<>>)
         \o (IF value.t = "num" /\ r.min # Undef /\ value.n < r.min.n
             THEN <<FieldError(r.field, "min")>> ELSE <<>>)
         \o (IF value.t = "num" /\ r.max # Undef /\ value.n > r.max.n
             THEN <<FieldError(r.field, "max")>> ELSE <<>>)

\* A validation that throws on the first violation it meets.
RECURSIVE _validateFirst(_, _)
_validateFirst(doc, definition) ==
    IF definition = <<>> THEN <<>>
    ELSE LET errors == FieldErrors(Head(definition), doc[Head(definition).field])
         IN  IF errors # <<>> THEN <<errors[1]>>
             ELSE _validateFirst(doc, Tail(definition))

\* Model._validate(doc): the errors of every field of the definition, in
\* its order; the call throws one ValidationError carrying them when there
\* is any.
RECURSIVE _validate(_, _)
_validate(doc, definition) ==
    IF definition = <<>> THEN <<>>
    ELSE FieldErrors(Head(definition), doc[Head(definition).field])
         \o _validate(doc, Tail(definition))

\* schema.preHooks['save'] and schema.postHooks['save'], in registration
\* order: the first pre-save hook derives a from f, as the repository's
\* hooks derive one field from another; the others only read.
PreHooks == <<"pre1", "pre2">>
PostHooks == <<"post1", "post2">>
RunHook(hook, doc) ==
    IF hook = "pre1" /\ doc.f = Num(2) THEN [doc EXCEPT !.a = Str("B")]
    ELSE doc

\* The collection of the Model: name.toLowerCase() + 's'.
ModelName == "users"

\* The store takes the state a handler on collection c leaves, as when a
\* call of the handler returns or throws.
Applies(c, r) ==
    /\ CanSave(DB)
    /\ WithinBounds(r.db)
    /\ collections' = r.db.collections
    /\ indexes' = r.db.indexes
    /\ writeBuffer' = r.db.writeBuffer
    /\ writeTimeout' = r.db.writeTimeout
    /\ timers' = r.db.timers
    /\ nextId' = r.db.nextId
    /\ mutated' = IF r.n > 0 \/ r.db.collections[c] # collections[c]
                   THEN mutated \cup {c} ELSE mutated
    /\ UNCHANGED <<files, backups, defaults, written, logged>>

\* A step that touches neither the store nor its files.
StoreUnchanged ==
    UNCHANGED <<collections, indexes, writeBuffer, writeTimeout, timers,
                nextId, mutated, files, backups, defaults, written, logged>>

TaskIds == 1..MaxTasks

\* The task a new async call becomes.
NewTask == CHOOSE t \in TaskIds : t \notin DOMAIN tasks
                                  /\ \A u \in TaskIds \ DOMAIN tasks : t <= u

\* tasks with task t at rec, and with task t gone.
TaskAt(t, rec) == [u \in DOMAIN tasks \cup {t} |-> IF u = t THEN rec ELSE tasks[u]]
TaskGone(t) == [u \in DOMAIN tasks \ {t} |-> tasks[u]]

\* Model.create up to its first await: defaults, transforms, and the call
\* of the first pre-save hook.
Prepared(data) ==
    RunHook(PreHooks[1], _transform(_applyDefaults(data, UserDefinition),
                                    UserDefinition))

\* Model.create(data) is called with one document (batch FALSE) or a list
\* (batch TRUE, one recursive create per element): the call runs up to the
\* await of the first pre-save hook.
CreateStart(items, batch) ==
    /\ tasks = <<>>
    /\ Len(collections[ModelName]) + Len(items) <= MaxDocs
    /\ nextId + Len(items) <= MaxGen + 1
    /\ tasks' = TaskAt(NewTask, [op |-> "create", batch |-> batch,
                                 stage |-> "pre", k |-> 1,
                                 doc |-> Prepared(Head(items)),
                                 rest |-> Tail(items), results |-> <<>>])
    /\ log' = <<"defaults", "transform", PreHooks[1]>>
    /\ UNCHANGED <<ret, out>>
    /\ StoreUnchanged

\* A create that goes on to validation after its first pre-save hook.
CreatePreHookSkipped(t) ==
    /\ t \in DOMAIN tasks
    /\ tasks[t].op = "create" /\ tasks[t].stage = "pre"
    /\ tasks[t].k < Len(PreHooks)
    /\ tasks' = TaskAt(t, [tasks[t] EXCEPT !.k = Len(PreHooks)])
    /\ UNCHANGED <<ret, out, log>>
    /\ StoreUnchanged

\* The create resumes after the await of a pre-save hook that is not the
\* last: the next hook is called.
CreatePreHook(t) ==
    /\ t \in DOMAIN tasks
    /\ tasks[t].op = "create" /\ tasks[t].stage = "pre"
    /\ tasks[t].k < Len(PreHooks)
    /\ tasks' = TaskAt(t, [tasks[t] EXCEPT
                              !.k = @ + 1,
                              !.doc = RunHook(PreHooks[tasks[t].k + 1], @)])
    /\ log' = Append(log, PreHooks[tasks[t].k + 1])
    /\ UNCHANGED <<ret, out>>
    /\ StoreUnchanged

\* The create resumes after the await of the last pre-save hook: _validate
\* throws, ending the whole call, or collection.insertOne runs, which
\* throws on a duplicate key or inserts.
CreateValidateInsert(t) ==
    /\ t \in DOMAIN tasks
    /\ tasks[t].op = "create" /\ tasks[t].stage = "pre"
    /\ tasks[t].k = Len(PreHooks)
    /\ LET errors == _validate(tasks[t].doc, UserDefinition)
           r == insertOne(DB, ModelName, tasks[t].doc)
       IN  IF errors # <<>>
           THEN /\ tasks' = TaskGone(t)
                /\ log' = <<>>
                /\ ret' = [op |-> "create", st |-> "ValidationError",
                           n |-> Len(tasks[t].results)]
                /\ out' = [docs |-> <<>>, errors |-> errors]
                /\ StoreUnchanged
           ELSE /\ Applies(ModelName, r)
                /\ log' = IF r.st = "ok"
                          THEN log \o <<"validate", "insert">> ELSE <<>>
                /\ IF r.st = "ok"
                   THEN /\ tasks' = TaskAt(t, [tasks[t] EXCEPT
                               !.stage = "post", !.k = 0,
                               !.doc = r.db.collections[ModelName]
                                          [Len(r.db.collections[ModelName])]])
                        /\ UNCHANGED <<ret, out>>
                   ELSE /\ tasks' = TaskGone(t)
                        /\ ret' = [op |-> "create", st |-> r.st,
                                   n |-> Len(tasks[t].results)]
                        /\ out' = [docs |-> <<>>, errors |-> <<>>]

\* The create resumes after the await of insertOne or of a post-save hook:
\* the next post-save hook is called on the wrapped document.
CreatePostHook(t) ==
    /\ t \in DOMAIN tasks
    /\ tasks[t].op = "create" /\ tasks[t].stage = "post"
    /\ tasks[t].k < Len(PostHooks)
    /\ tasks' = TaskAt(t, [tasks[t] EXCEPT
                              !.k = @ + 1,
                              !.doc = RunHook(PostHooks[tasks[t].k + 1], @)])
    /\ log' = Append(log, PostHooks[tasks[t].k + 1])
    /\ UNCHANGED <<ret, out>>
    /\ StoreUnchanged

\* The create returns the wrapped document after the last post-save hook:
\* the call ends, or the list's next element is created.
CreateReturn(t) ==
    /\ t \in DOMAIN tasks
    /\ tasks[t].op = "create" /\ tasks[t].stage = "post"
    /\ tasks[t].k = Len(PostHooks)
    /\ LET results == Append(tasks[t].results, tasks[t].doc)
       IN  IF tasks[t].rest = <<>>
           THEN /\ tasks' = TaskGone(t)
                /\ ret' = [op |-> "create", st |-> "ok", n |-> Len(results)]
                /\ out' = [docs |-> results, errors |-> <<>>]
                /\ log' = <<>>
           ELSE /\ tasks' = TaskAt(t, [tasks[t] EXCEPT
                               !.stage = "pre", !.k = 1,
                               !.doc = Prepared(Head(tasks[t].rest)),
                               !.rest = Tail(@), !.results = results])
                /\ log' = <<"defaults", "transform", PreHooks[1]>>
                /\ UNCHANGED <<ret, out>>
    /\ StoreUnchanged

\* A findById that falls back to the first document.
findByIdOrFirst(db, c, id) ==
    LET docs == db.collections[c]
        index == FindIndex(docs, id)
    IN  IF docs = <<>> THEN <<>>
        ELSE IF index = 0 THEN <<docs[1]>>
        ELSE <<docs[index]>>

\* Collection.findById(id): with an index on _id, the first document with
\* the id when the index holds the id and none otherwise; without one, the
\* first document with the id. No document is <<>>, one is <<doc>>.
findById(db, c, id) ==
    LET docs == db.collections[c]
        idx == IndexesOf(db, c)
        index == FindIndex(docs, id)
    IN  IF P_id \in DOMAIN idx /\ IndexGet(idx[P_id].data, id) = <<>> THEN <<>>
        ELSE IF index = 0 THEN <<>>
        ELSE <<docs[index]>>

\* Collection.findOne(query): results[0] || null of find with limit 1.
findOne(db, c, query) ==
    LET results == find(db, c, query)
    IN  IF results = <<>> THEN <<>> ELSE <<results[1]>>

\* A lookup returns: nothing in the store changes.
Returns(op, docs) ==
    /\ ret' = [op |-> op, st |-> "ok", n |-> Len(docs)]
    /\ out' = [docs |-> docs, errors |-> <<>>]
    /\ UNCHANGED <<tasks, log>>
    /\ StoreUnchanged

\* Model.findOne(query) and Model.findById(id), which returns null for a
\* falsy id before it asks the collection.
FindOne(q) == Returns("findOne", findOne(DB, ModelName, q))
FindById(id) ==
    Returns("findById",
            IF Truthy(id) THEN findById(DB, ModelName, id) ELSE <<>>)

\* The update Model.findByIdAndUpdate hands on: an update none of whose
\* keys starts with $ becomes the $set of its fields.
ToSet(update) ==
    IF \A i \in 1..Len(update) : update[i].op = "direct"
    THEN [i \in 1..Len(update) |-> [update[i] EXCEPT !.op = "$set"]]
    ELSE update

\* A Model call that went through a Collection handler returns or throws.
Settles(op, r, docs) ==
    /\ Applies(ModelName, r)
    /\ ret' = [op |-> op, st |-> r.st, n |-> r.n]
    /\ out' = [docs |-> IF r.st = "ok" THEN docs ELSE <<>>, errors |-> <<>>]
    /\ UNCHANGED <<tasks, log>>

\* Model.findByIdAndUpdate(id, update): null for a falsy id, else what
\* Collection.findByIdAndUpdate returns: the updated document, or null.
ModelFindByIdAndUpdate(id, update) ==
    IF ~Truthy(id) THEN Returns("Model.findByIdAndUpdate", <<>>)
    ELSE \E r \in {findByIdAndUpdate(DB, ModelName, id, ToSet(update))} :
            LET index == FindIndex(collections[ModelName], id)
            IN  Settles("Model.findByIdAndUpdate", r,
                        IF index = 0 THEN <<>>
                        ELSE <<r.db.collections[ModelName][index]>>)

\* Object.keys of a wrapped document, in the order insertOne gave them.
KeyOrder ==
    <<"_id", "f", "a", "createdAt", "updatedAt", "a.b",
      "save", "toObject", "toJSON">>

\* Model._wrapDocument(doc) for a document: a copy of its properties, with
\* save, toObject and toJSON assigned as ordinary properties.
_wrapDocument(doc) ==
    [k \in DOMAIN doc |-> IF k \in Bindings THEN FnV ELSE doc[k]]

\* {$set: this} of wrapped.save(): one entry per field the wrapped
\* document has.
SetAll(wrapped) ==
    LET keys == SelectSeq(KeyOrder, LAMBDA k : wrapped[k] # Undef)
    IN  [i \in 1..Len(keys) |->
            Upd("$set", IF keys[i] \in Dotted THEN P_ab ELSE <<keys[i]>>,
                wrapped[keys[i]])]

RECURSIVE RunHooks(_, _)
RunHooks(hooks, doc) ==
    IF hooks = <<>> THEN doc ELSE RunHooks(Tail(hooks), RunHook(Head(hooks), doc))

\* wrapped.save() on the wrapped copy of the stored document with the id,
\* after the caller set its f to v: the pre-save hooks, then
\* findByIdAndUpdate(this._id, {$set: this}), then the post-save hooks.
Save(id, v) ==
    LET index == FindIndex(collections[ModelName], id)
        wrapped == RunHooks(PreHooks,
                [_wrapDocument(collections[ModelName][index]) EXCEPT !.f = v])
    IN  /\ index # 0
        /\ \E r \in {findByIdAndUpdate(DB, ModelName, id, SetAll(wrapped))} :
              Settles("save", r, <<r.db.collections[ModelName][index]>>)

\* Model.findByIdAndDelete(id): null for a falsy id or when findById finds
\* nothing, else deleteOne({_id: id}) and the document found.
FindByIdAndDelete(id) ==
    LET doc == IF Truthy(id) THEN findById(DB, ModelName, id) ELSE <<>>
    IN  IF doc = <<>> THEN Returns("findByIdAndDelete", <<>>)
        ELSE \E r \in {deleteOne(DB, ModelName, <<Lit(P_id, id)>>)} :
                Settles("findByIdAndDelete", r, doc)

\* --------------------------------------------------------- model scenarios
\* Documents handed to Model.create: f missing, below the minimum or
\* valid; a missing, or a number where a string is due.
CreateDocs ==
    {Given(Undef, f, a) : f \in {Undef, Num(0), Num(1), Num(2)},
                          a \in {Undef, Num(1)}}

\* Lists handed to Model.create: a valid document, then a valid or an
\* invalid one.
CreateBatches ==
    {<<Given(Undef, Num(1), Undef), Given(Undef, f, Undef)>> :
        f \in {Num(0), Num(2)}}

\* The ids lookups are called with: every id the store can generate,
\* whether a document holds it or not, and undefined.
LookupIds == {Id(i) : i \in 1..MaxGen} \cup {Undef}

\* Filters and updates of the Model calls; the updates set f below the
\* minimum of the schema.
ModelQueries == {<<>>, <<Lit(P_f, Num(1))>>}
FindOneQueries == {<<Lit(P_f, Num(1))>>, <<Lit(P_f, Num(2))>>}
SetFBelowMin == <<Upd("$set", P_f, Num(0))>>
FieldsFBelowMin == <<Upd("direct", P_f, Num(0))>>

\* No async call is in flight: the scenarios await each Model call before
\* they issue the next.
Idle == tasks = <<>>

ModelNext ==
    \/ \E d \in CreateDocs : CreateStart(<<d>>, FALSE)
    \/ \E items \in CreateBatches : CreateStart(items, TRUE)
    \/ \E t \in TaskIds : CreatePreHook(t)
    \/ \E t \in TaskIds : CreateValidateInsert(t)
    \/ \E t \in TaskIds : CreatePostHook(t)
    \/ \E t \in TaskIds : CreateReturn(t)
    \/ \E id \in LookupIds :
          Idle /\ ModelFindByIdAndUpdate(id, FieldsFBelowMin)
    \/ \E q \in ModelQueries : Idle /\ UpdateOne(ModelName, q, SetFBelowMin)
    \/ \E q \in ModelQueries : Idle /\ UpdateMany(ModelName, q, SetFBelowMin)
    \/ \E id \in IdsIn(ModelName) : Idle /\ Save(id, Num(0))
    \/ \E q \in FindOneQueries : Idle /\ FindOne(q)
    \/ \E id \in LookupIds : Idle /\ FindById(id)
    \/ \E id \in LookupIds : Idle /\ FindByIdAndDelete(id)

\* The Model scenarios start with the schema of top-level indexes.
ModelSpec == Opened(SchemaA) /\ [][ModelNext]_vars

\* ------------------------------------------------------------ model claims
\* Whether document doc breaks rule `rule` of the field rules r, as the
\* schema states the rule.
Breaks(doc, r, rule) ==
    LET v == doc[r.field]
    IN  CASE rule = "required" -> r.required /\ v = Undef
          [] rule = "type" ->
                 /\ v # Undef
                 /\ \/ r.type = "Number" /\ v.t # "num"
                    \/ r.type = "String" /\ v.t \notin {"str", "id", "iso"}
          [] rule = "min" -> v.t = "num" /\ r.min # Undef /\ v.n < r.min.n
          [] rule = "max" -> v.t = "num" /\ r.max # Undef /\ v.n > r.max.n

\* Every violation of the schema the document has.
Violations(doc) ==
    {e \in {FieldError(UserDefinition[i].field, rule) :
               i \in 1..Len(UserDefinition),
               rule \in {"required", "type", "min", "max"}} :
        \E i \in 1..Len(UserDefinition) :
            /\ UserDefinition[i].field = e.field
            /\ Breaks(doc, UserDefinition[i], e.rule)}

\* Task t is a create at its validation, and the step is the task's.
Validates(t) ==
    /\ t \in DOMAIN tasks
    /\ tasks[t].op = "create"
    /\ tasks[t].stage = "pre" /\ tasks[t].k = Len(PreHooks)
    /\ tasks' # tasks

\* C11: a Model.create of one document that has violations when it is
\* validated throws one ValidationError that lists every violation once,
\* and the step adds no document, changes no index and schedules no write.
C11_InvalidCreateRejected ==
    [][\A t \in TaskIds :
          Validates(t) /\ ~tasks[t].batch /\ Violations(tasks[t].doc) # {}
          => /\ ret'.op = "create" /\ ret'.st = "ValidationError"
             /\ {out'.errors[i] : i \in 1..Len(out'.errors)}
                   = Violations(tasks[t].doc)
             /\ Len(out'.errors) = Cardinality(Violations(tasks[t].doc))
             /\ collections' = collections
             /\ indexes' = indexes
             /\ writeBuffer' = writeBuffer
             /\ writeTimeout' = writeTimeout
             /\ timers' = timers]_vars

\* A create of one document failed with two violations while the
\* collection holds a document.
C11_Witness ==
    /\ ret.op = "create" /\ ret.st = "ValidationError" /\ ret.n = 0
    /\ Len(out.errors) = 2
    /\ out.errors[1].field # out.errors[2].field
    /\ collections[ModelName] # <<>>
    /\ tasks = <<>>

\* C12: when a Model.create of a list throws a validation error for some
\* element, none of the documents the call created for the list's earlier
\* elements is in the collection afterwards.
C12_BatchCreateAllOrNothing ==
    [][\A t \in TaskIds :
          Validates(t) /\ tasks[t].batch
              /\ ret'.op = "create" /\ ret'.st = "ValidationError"
          => \A i \in 1..Len(tasks[t].results) :
                \A j \in 1..Len(collections'[ModelName]) :
                    collections'[ModelName][j]._id # tasks[t].results[i]._id]_vars

\* C13: every document stored in the Model's collection satisfies all the
\* field rules of the schema.
C13_StoredDocumentsValid ==
    \A i \in 1..Len(collections[ModelName]) :
        Violations(collections[ModelName][i]) = {}

\* The steps of a single-document create, in the order the schema layer
\* is to take them.
CreateOrder ==
    <<"defaults", "transform">> \o PreHooks \o <<"validate", "insert">>
        \o PostHooks

IsPrefix(s, t) == Len(s) <= Len(t) /\ \A i \in 1..Len(s) : s[i] = t[i]

\* C14: the steps a single-document Model.create has taken are always the
\* first steps of: defaults, string transforms, the pre-save hooks in
\* registration order, validation, insert, the post-save hooks in
\* registration order; the collection changes during a create only in the
\* step that validates and inserts, and a create returns its document only
\* after all the steps.
C14_CreateStepsInOrder ==
    /\ [](IsPrefix(log, CreateOrder))
    /\ [][tasks # <<>> /\ collections' # collections
          => /\ log = SubSeq(CreateOrder, 1, 2 + Len(PreHooks))
             /\ log' = SubSeq(CreateOrder, 1, 4 + Len(PreHooks))]_vars
    /\ [][tasks # <<>> /\ ret'.op = "create" /\ ret'.st = "ok" /\ ret' # ret
          => log = CreateOrder]_vars

\* A create of one document has taken every step and is about to return
\* the document it inserted, which a pre-save hook changed.
C14_Witness ==
    /\ log = CreateOrder
    /\ \E t \in DOMAIN tasks :
          /\ ~tasks[t].batch
          /\ tasks[t].doc.a = Str("B")
          /\ \E i \in 1..Len(collections[ModelName]) :
                collections[ModelName][i] = tasks[t].doc

\* No document of the Model's collection satisfies the query, and none has
\* the id.
NoMatch(q) ==
    \A i \in 1..Len(collections[ModelName]) :
        ~_matchDocument(collections[ModelName][i], q)
NoDocWithId(id) ==
    \A i \in 1..Len(collections[ModelName]) :
        collections[ModelName][i]._id # id

\* The call returned null without an error and left the documents, the
\* indexes and the dirty set as they were.
ReturnedNullQuietly ==
    /\ ret'.st = "ok" /\ ret'.n = 0
    /\ out'.docs = <<>>
    /\ collections' = collections
    /\ indexes' = indexes
    /\ writeBuffer' = writeBuffer

\* C16: findOne with a query no document satisfies, and findById,
\* Model.findByIdAndUpdate and Model.findByIdAndDelete with an id no
\* document has, return null without an error and leave the documents,
\* the indexes and the dirty set unchanged.
C16_NoMatchReturnsNull ==
    [][/\ \A q \in FindOneQueries :
             NoMatch(q) /\ FindOne(q) => ReturnedNullQuietly
       /\ \A id \in LookupIds :
             NoDocWithId(id)
                 /\ \/ FindById(id)
                    \/ ModelFindByIdAndUpdate(id, FieldsFBelowMin)
                    \/ FindByIdAndDelete(id)
             => ReturnedNullQuietly]_vars

\* Model.findByIdAndDelete returned null while the collection holds two
\* documents with other ids.
C16_Witness ==
    /\ ret.op = "findByIdAndDelete" /\ ret.n = 0
    /\ out.docs = <<>>
    /\ Len(collections[ModelName]) = 2

\* The lookups on a collection that inserts filled.
LookupNext ==
    \/ \E f \in {Num(1), Num(2)} : InsertOne(ModelName, Given(Undef, f, Undef))
    \/ \E q \in FindOneQueries : FindOne(q)
    \/ \E id \in LookupIds : FindById(id)
    \/ \E id \in LookupIds : ModelFindByIdAndUpdate(id, FieldsFBelowMin)
    \/ \E id \in LookupIds : FindByIdAndDelete(id)

LookupSpec == Opened(SchemaA) /\ [][LookupNext]_vars

\* ------------------------------------------------------------- round trip
\* Documents handed to insertOne with or without timestamps of their own:
\* an ISO string, or the falsy 0.
RoundTripDocs ==
    {[Given(Undef, f, Undef) EXCEPT !.createdAt = c, !.updatedAt = u] :
        f \in {Undef, Num(1), Num(2)},
        c \in {Undef, IsoV, Num(0)},
        u \in {Undef, IsoV, Num(0)}}

RoundTripNext ==
    \/ \E d \in RoundTripDocs : InsertOne(ModelName, d)
    \/ \E q \in Queries : DeleteOne(ModelName, q)

RoundTripSpec == Opened(SchemaA) /\ [][RoundTripNext]_vars

\* What findById gives for the id the insertOne of this step returned: the
\* _id of the document it appended.
FetchedBack ==
    findById(DB', ModelName,
             collections'[ModelName][Len(collections'[ModelName])]._id)

\* The fetched document has an _id and both timestamps.
HasIdAndStamps(doc) ==
    doc._id # Undef /\ doc.createdAt # Undef /\ doc.updatedAt # Undef

\* C17 as stated: after insertOne(d), findById of the returned id yields a
\* document with every field of d at the value d gave it, plus _id,
\* createdAt and updatedAt.
C17_RoundTrip ==
    [][\A d \in RoundTripDocs :
          InsertOne(ModelName, d) /\ ret'.st = "ok"
          => /\ FetchedBack # <<>>
             /\ \A k \in DocKeys : d[k] # Undef => FetchedBack[1][k] = d[k]
             /\ HasIdAndStamps(FetchedBack[1])]_vars

\* The round trip does hold for every field of d but a createdAt or
\* updatedAt that is falsy, in place of which the document has the time of
\* the insert.
RoundTripButFalsyStamps ==
    [][\A d \in RoundTripDocs :
          InsertOne(ModelName, d) /\ ret'.st = "ok"
          => /\ FetchedBack # <<>>
             /\ \A k \in DocKeys \ {"createdAt", "updatedAt"} :
                   d[k] # Undef => FetchedBack[1][k] = d[k]
             /\ \A k \in {"createdAt", "updatedAt"} :
                   FetchedBack[1][k] = IF Truthy(d[k]) THEN d[k] ELSE DateV
             /\ HasIdAndStamps(FetchedBack[1])]_vars

\* ------------------------------------------------------- concurrent calls
\* Filters and updates of the concurrent calls.
ConcQueries == {<<>>, <<Lit(P_f, Num(1))>>}
ConcUpdates == {SetF, SetAB}

\* updateOne(q, u) or deleteOne(q) is called while earlier calls wait: the
\* call runs findOne, whose find matches the data as they are now, and
\* waits at its await behind the calls issued before it.
Call(op, q, u) ==
    /\ Len(tasks) < MaxTasks
    /\ tasks' = Append(tasks, [op |-> op, query |-> q, update |-> u,
                               found |-> findOne(DB, ModelName, q)])
    /\ UNCHANGED <<ret, out, log>>
    /\ StoreUnchanged

UpdateOneCall(q, u) == Call("updateOne", q, u)
DeleteOneCall(q) == Call("deleteOne", q, <<>>)

\* The call that has waited longest resumes after its await and runs to
\* its return.
Resume ==
    /\ tasks # <<>>
    /\ LET t == Head(tasks)
       IN  \E r \in {IF t.op = "updateOne"
                      THEN UpdateFound(DB, ModelName, t.found, t.update)
                      ELSE DeleteFound(DB, ModelName, t.found)} :
              /\ Applies(ModelName, r)
              /\ ret' = [op |-> t.op, st |-> r.st, n |-> r.n]
    /\ tasks' = Tail(tasks)
    /\ UNCHANGED <<out, log>>

ConcNext ==
    \/ \E f \in {Num(1), Num(2)} :
          InsertOne(ModelName, Given(Undef, f, Obj(Num(1))))
    \/ \E q \in ConcQueries, u \in ConcUpdates : UpdateOneCall(q, u)
    \/ \E q \in ConcQueries : DeleteOneCall(q)
    \/ Resume

ConcSpec == Opened(SchemaA) /\ [][ConcNext]_vars

\* C15: when an updateOne(q, u) or deleteOne(q) issued concurrently with
\* other calls modifies or removes a document, the document satisfies q at
\* the moment of the write.
C15_WriteOnlyWhereQueryHolds ==
    [][tasks # <<>> /\ tasks' = Tail(tasks) /\ ret'.n = 1
       => LET t == Head(tasks)
              index == FindIndex(collections[ModelName], t.found[1]._id)
          IN  _matchDocument(collections[ModelName][index], t.query)]_vars

\* ---------------------------------------------------------- update algebra
\* The fields and amounts the update operators are applied with.
AlgebraPaths == {P_f, P_ab}
AlgebraValues == {Num(n) : n \in 1..MaxVal}
AlgebraUpdates ==
    {<<Upd(op, p, v)>> : op \in {"$set", "$inc"}, p \in AlgebraPaths,
                         v \in AlgebraValues}

\* The documents the operators are applied to: with or without f and a.b.
AlgebraDocs ==
    {Given(Undef, f, a) : f \in {Undef} \cup AlgebraValues,
                          a \in {Undef} \cup {Obj(v) : v \in AlgebraValues}}

\* The store after insertMany into "posts" of up to MaxDocs of the
\* documents.
AlgebraInit ==
    \E docs \in ListsOf(AlgebraDocs, MaxDocs) :
        Loaded("posts", docs)

AlgebraNext ==
    \E id \in IdsIn("posts"), u \in AlgebraUpdates :
        FindByIdAndUpdate("posts", id, u)

AlgebraSpec == AlgebraInit /\ [][AlgebraNext]_vars

\* update applied to the document, and applied again to the result.
Once(doc, update) == _applyUpdate(doc, update)
Twice(doc, update) == _applyUpdate(Once(doc, update).res, update)

\* The number a field counts as before an $inc: 0 when it is missing.
CountedAs(v) == IF v = Undef THEN 0 ELSE v.n

\* C18: on every stored document, {$set: {x: v}} applied twice leaves the
\* fields that it leaves applied once, and {$inc: {x: n}} applied twice
\* leaves x at its number before plus 2n, a missing x counting as 0.
C18_SetIdempotentIncAdds ==
    \A i \in 1..Len(collections["posts"]) :
        \A p \in AlgebraPaths, v \in AlgebraValues :
            LET doc == collections["posts"][i]
                set == <<Upd("$set", p, v)>>
                inc == <<Upd("$inc", p, v)>>
                x == _getNestedValue(doc, p)
            IN  /\ ~Once(doc, set).threw
                   => /\ ~Twice(doc, set).threw
                      /\ Twice(doc, set).res = Once(doc, set).res
                      /\ _getNestedValue(Once(doc, set).res, p) = v
                /\ (x = Undef \/ x.t = "num") /\ ~Once(doc, inc).threw
                   => /\ ~Twice(doc, inc).threw
                      /\ _getNestedValue(Twice(doc, inc).res, p)
                            = Num(CountedAs(x) + 2 * v.n)

\* An update has left a document that has numbers in f and a.b next to one
\* that lacks both.
C18_Witness ==
    /\ ret.op = "findByIdAndUpdate" /\ ret.st = "ok" /\ ret.n = 1
    /\ Len(collections["posts"]) = 2
    /\ collections["posts"][1].f = Undef
    /\ collections["posts"][1].a = Undef
    /\ collections["posts"][2].f = Num(2)
    /\ collections["posts"][2].a = Obj(Num(2))

\* ------------------------------------------------------------ delete many
\* The documents of the collection that do not satisfy the query, in their
\* order.
Unmatched(c, q) ==
    SelectSeq(collections[c], LAMBDA d : ~_matchDocument(d, q))

\* C19: deleteMany(q) leaves exactly the documents that do not satisfy q,
\* in their order, and reports how many it removed; when no document
\* satisfies q it reports 0 and leaves the documents, the indexes and the
\* dirty set unchanged.
C19_DeleteManyExact ==
    [][\A q \in Queries :
          DeleteMany("users", q)
          => /\ collections'["users"] = Unmatched("users", q)
             /\ ret'.n = Len(collections["users"]) - Len(Unmatched("users", q))
             /\ Unmatched("users", q) = collections["users"]
                => /\ ret'.n = 0
                   /\ indexes' = indexes
                   /\ writeBuffer' = writeBuffer]_vars

\* -------------------------------------------------------------------- sort
\* A sort option is the sequence of its entries, in key order: [path, order]
\* with order 1 or -1.
By(path, order) == [path |-> path, order |-> order]

\* The comparator _applySort hands to Array.prototype.sort: the first sort
\* key on which a < b or a > b decides; the keys on which neither holds,
\* as when a value is undefined, are passed over; 0 when none decides.
RECURSIVE Compare(_, _, _)
Compare(a, b, sort) ==
    IF sort = <<>> THEN 0
    ELSE LET aVal == _getNestedValue(a, Head(sort).path)
             bVal == _getNestedValue(b, Head(sort).path)
         IN  IF Less(aVal, bVal) THEN (-1) * Head(sort).order
             ELSE IF Less(bVal, aVal) THEN Head(sort).order
             ELSE Compare(a, b, Tail(sort))

\* Array.prototype.sort of the engine on an array shorter than 64, which is
\* one run of its merge sort. The run that starts the array is found
\* (strictly descending, and then reversed, or non-descending), and the
\* elements after it are put in place by binary insertion.
Reverse(s) == [i \in 1..Len(s) |-> s[Len(s) + 1 - i]]

RECURSIVE RunEnd(_, _, _, _)
RunEnd(s, sort, descending, idx) ==
    IF idx > Len(s) THEN Len(s)
    ELSE LET order == Compare(s[idx], s[idx - 1], sort)
         IN  IF (descending /\ order >= 0) \/ (~descending /\ order < 0)
             THEN idx - 1
             ELSE RunEnd(s, sort, descending, idx + 1)

CountAndMakeRun(s, sort) ==
    IF Len(s) < 2 THEN [s |-> s, run |-> Len(s)]
    ELSE LET descending == Compare(s[2], s[1], sort) < 0
             run == RunEnd(s, sort, descending, 3)
         IN  [s |-> IF descending
                    THEN Reverse(SubSeq(s, 1, run)) \o SubSeq(s, run + 1, Len(s))
                    ELSE s,
              run |-> run]

RECURSIVE BinarySearch(_, _, _, _, _)
BinarySearch(s, pivot, left, right, sort) ==
    IF left >= right THEN left
    ELSE LET mid == left + ((right - left) \div 2)
         IN  IF Compare(pivot, s[mid], sort) < 0
             THEN BinarySearch(s, pivot, left, mid, sort)
             ELSE BinarySearch(s, pivot, mid + 1, right, sort)

RECURSIVE BinaryInsertionSort(_, _, _)
BinaryInsertionSort(s, start, sort) ==
    IF start > Len(s) THEN s
    ELSE LET pivot == s[start]
             left == BinarySearch(s, pivot, 1, start, sort)
             placed == SubSeq(s, 1, left - 1) \o <<pivot>>
                           \o SubSeq(s, left, start - 1)
                           \o SubSeq(s, start + 1, Len(s))
         IN  BinaryInsertionSort(placed, start + 1, sort)

\* Collection._applySort(docs, sort): [...docs].sort(comparator).
_applySort(docs, sort) ==
    LET r == CountAndMakeRun(docs, sort)
    IN  BinaryInsertionSort(r.s, r.run + 1, sort)

\* Collection.find(query, {sort}) on collection c.
FindSorted(c, q, sort) == Returns("find", _applySort(find(DB, c, q), sort))

\* The documents to sort: with or without f and a.b.
SortableDocs ==
    {Given(Undef, f, a) : f \in {Undef, Num(1), Num(2)},
                          a \in {Undef, Obj(Num(1))}}

\* The store after insertMany into "posts", whose only index is that on
\* _id, of up to MaxSorted of the documents.
SortInit ==
    \E docs \in ListsOf(SortableDocs, MaxSorted) :
        Loaded("posts", docs)

SortQueries == {<<>>, <<Lit(P_ab, Num(1))>>}
Sorts == {<<By(P_f, 1)>>, <<By(P_f, -1)>>, <<By(P_ab, 1), By(P_f, 1)>>}

SortNext == \E q \in SortQueries, sort \in Sorts : FindSorted("posts", q, sort)

SortSpec == SortInit /\ [][SortNext]_vars

\* Document a is to come before document b: on the first sort key on which
\* they differ both have a value, and a's comes first in the key's
\* direction.
RECURSIVE Before(_, _, _)
Before(a, b, sort) ==
    IF sort = <<>> THEN FALSE
    ELSE LET x == _getNestedValue(a, Head(sort).path)
             y == _getNestedValue(b, Head(sort).path)
         IN  IF x = y THEN Before(a, b, Tail(sort))
             ELSE IF x = Undef \/ y = Undef THEN FALSE
             ELSE IF Head(sort).order = 1 THEN x.n < y.n ELSE x.n > y.n

\* The two documents are equal on every sort key: the same value, or both
\* lack the field.
Tied(a, b, sort) ==
    \A i \in 1..Len(sort) :
        _getNestedValue(a, sort[i].path) = _getNestedValue(b, sort[i].path)

\* C20: find with a sort option returns the documents that satisfy the
\* query, no document before one that the sort keys, read left to right,
\* put before it, and documents equal on every sort key in the order of
\* their insertion.
C20_SortOrderedAndStable ==
    [][\A q \in SortQueries, sort \in Sorts :
          FindSorted("posts", q, sort)
          => LET res == out'.docs
                 matching == SelectSeq(collections["posts"],
                                       LAMBDA d : _matchDocument(d, q))
                 pos(d) == FindIndex(collections["posts"], d._id)
             IN  /\ Len(res) = Len(matching)
                 /\ {res[i] : i \in 1..Len(res)}
                       = {matching[i] : i \in 1..Len(matching)}
                 /\ \A i, j \in 1..Len(res) :
                       i < j => /\ ~Before(res[j], res[i], sort)
                                /\ Tied(res[i], res[j], sort)
                                   => pos(res[i]) < pos(res[j])]_vars



\* ------------------------------------------------- find with skip and limit

\* Array.prototype.slice(from) and slice(0, to) on a list.
SliceFrom(s, from) == SubSeq(s, from + 1, Len(s))
SliceTo(s, to) == SubSeq(s, 1, IF to < Len(s) THEN to ELSE Len(s))

\* find that cuts the page out of the matches before it sorts them.
findWithPageFirst(db, c, query, sort, skip, limit) ==
    LET matched == find(db, c, query)
        skipped == IF skip # 0 THEN SliceFrom(matched, skip) ELSE matched
        page    == IF limit # 0 THEN SliceTo(skipped, limit) ELSE skipped
    IN  _applySort(page, sort)

\* Collection.find(query, {sort, skip, limit}): each option is applied only
\* when it is truthy, so a skip or a limit of 0 is no option at all.
findWith(db, c, query, sort, skip, limit) ==
    LET matched == find(db, c, query)
        sorted  == _applySort(matched, sort)
        skipped == IF skip # 0 THEN SliceFrom(sorted, skip) ELSE sorted
    IN  IF limit # 0 THEN SliceTo(skipped, limit) ELSE skipped

FindWith(c, q, sort, skip, limit) ==
    Returns("find", findWith(DB, c, q, sort, skip, limit))

\* The documents to page through, each with a value of f, one of them
\* with a.b as well.
PageDocs ==
    {Given(Undef, Num(1), Undef), Given(Undef, Num(2), Undef),
     Given(Undef, Num(1), Obj(Num(1)))}

PageInit ==
    \E docs \in ListsOf(PageDocs, MaxSorted) : Loaded("posts", docs)

PageSorts == {<<By(P_f, 1)>>, <<By(P_f, -1)>>}
Skips == 0 .. 2
Limits == 0 .. 2

PageNext ==
    \E q \in SortQueries, sort \in PageSorts, s \in Skips, l \in Limits :
        FindWith("posts", q, sort, s, l)

PageSpec == PageInit /\ [][PageNext]_vars

\* The elements at positions s .. s+l-1 (counted from 0) of the sorted
\* list of the documents matching q.
PageOf(q, sort, s, l) ==
    LET sorted == _applySort(find(DB, "posts", q), sort)
        last   == IF s + l < Len(sorted) THEN s + l ELSE Len(sorted)
    IN  SubSeq(sorted, s + 1, last)

\* C21 as stated: find with sort, skip s and limit l returns the elements
\* at positions s .. s+l-1 of the fully sorted list of the matching
\* documents, for every s >= 0 and l >= 0.
C21_PageOfSortedMatches ==
    [][\A q \in SortQueries, sort \in PageSorts, s \in Skips, l \in Limits :
          FindWith("posts", q, sort, s, l)
              => out'.docs = PageOf(q, sort, s, l)]_vars

\* C21: find with sort, skip s >= 0 and limit l >= 1 returns the elements
\* at positions s .. s+l-1 of the sorted list of the matching documents,
\* and with limit 0 every element from position s on: skip and limit are
\* applied after sorting.
C21_PageAfterSort ==
    [][\A q \in SortQueries, sort \in PageSorts, s \in Skips, l \in Limits :
          FindWith("posts", q, sort, s, l)
              => out'.docs = PageOf(q, sort, s,
                                    IF l = 0 THEN MaxSorted + 1 ELSE l)]_vars

\* A find has returned a page of one document that is not the first of
\* three stored ones.
C21_Witness ==
    /\ ret.op = "find"
    /\ Len(collections["posts"]) = 3
    /\ Len(out.docs) = 1
    /\ out.docs[1] # collections["posts"][1]


\* ------------------------------------------------- wrapped documents
\* C22: after any sequence of create, fetch and save() calls, no stored
\* document holds a property that wrapping injected (save, toObject,
\* toJSON).
C22_StoredDocumentsOnlyData ==
    \A c \in Names : \A i \in 1..Len(collections[c]) :
        \A k \in Bindings : collections[c][i][k] = Undef


\* ------------------------------------------------- string length bounds
\* The rules of a string field with length bounds.
LengthRules(field, minlength, maxlength) ==
    Rules(field, "String", FALSE, FALSE, Undef, Undef, Undef)
        @@ [minlength |-> minlength, maxlength |-> maxlength]

\* The text of the message a [number, message] bound carries.
Message == Str("m")

\* A length bound of n in the two forms the schemas of the repository use:
\* the number (Announcement.title) and the pair of the number and a
\* message (User.password, User.name, User.bio).
AsNumber(n) == Num(n)
AsPair(n) == Arr(<<Num(n), Message>>)

\* Schema definitions with f of at least MinLength characters and a of at
\* most MaxLength, the bounds in one form or the other.
MinLength == 2
MaxLength == 2
NumberForm ==
    << LengthRules("f", AsNumber(MinLength), Undef),
       LengthRules("a", Undef, AsNumber(MaxLength)) >>
PairForm ==
    << LengthRules("f", AsPair(MinLength), Undef),
       LengthRules("a", Undef, AsPair(MaxLength)) >>
LengthDefinitions == {NumberForm, PairForm}

\* Model.create(data) of a Model on "posts" whose schema has the definition
\* and no hooks: defaults, transforms, _validate, which throws before
\* anything is stored, then insertOne.
CreateAs(definition, data) ==
    LET doc == _transform(_applyDefaults(data, definition), definition)
        errors == _validate(doc, definition)
    IN  IF errors # <<>>
        THEN /\ ret' = [op |-> "create", st |-> "ValidationError", n |-> 0]
             /\ out' = [docs |-> <<>>, errors |-> errors]
             /\ UNCHANGED <<tasks, log>>
             /\ StoreUnchanged
        ELSE \E r \in {insertOne(DB, "posts", doc)} :
                /\ Applies("posts", r)
                /\ ret' = [op |-> "create", st |-> r.st, n |-> r.n]
                /\ out' = [docs |-> IF r.st = "ok"
                                    THEN <<r.db.collections["posts"]
                                             [Len(r.db.collections["posts"])]>>
                                    ELSE <<>>,
                           errors |-> <<>>]
                /\ UNCHANGED <<tasks, log>>

\* Strings of 0 to 3 characters, or no value.
LengthValues == {Undef, Str(""), Str("a"), Str("ab"), Str("abc")}
LengthDocs == {Given(Undef, f, a) : f \in LengthValues, a \in LengthValues}

LengthNext ==
    \E definition \in LengthDefinitions, data \in LengthDocs :
        CreateAs(definition, data)

LengthSpec == Opened(SchemaA) /\ [][LengthNext]_vars

\* The number a length bound declares, in either form.
Declared(bound) == IF bound.t = "arr" THEN bound.s[1].n ELSE bound.n

\* A string field of the document is shorter than the minlength or longer
\* than the maxlength its rules declare.
OutOfLength(definition, doc) ==
    \E i \in 1..Len(definition) :
        LET r == definition[i]
            v == doc[r.field]
        IN  /\ v.t = "str"
            /\ \/ r.minlength # Undef /\ Len(v.str) < Declared(r.minlength)
               \/ r.maxlength # Undef /\ Len(v.str) > Declared(r.maxlength)

\* C23: Model.create rejects with a validation error, and stores nothing,
\* every document with a string field shorter than the declared minlength
\* or longer than the declared maxlength, the bound declared as a number
\* or as a [number, message] pair.
C23_LengthBoundsEnforced ==
    [][\A definition \in LengthDefinitions, data \in LengthDocs :
          CreateAs(definition, data) /\ OutOfLength(definition, data)
              => /\ ret'.st = "ValidationError"
                 /\ collections' = collections]_vars


\* ------------------------------------------------- failed writes
\* C24: when _flushWrites fails to write a dirty collection, the failure is
\* logged and nothing else: the dirty set is emptied, no timer is started
\* or re-armed, every other dirty collection is written, and the call
\* returns without an error.
C24_FailedWriteOnlyLogged ==
    [][\A outcome \in StoreOutcomes :
          FlushEvent /\ _flushWrites(outcome)
              => /\ \A n \in writeBuffer : outcome[n] # "ok" => n \in logged'
                 /\ writeBuffer' = {}
                 /\ DOMAIN timers' \subseteq DOMAIN timers
                 /\ \A j \in DOMAIN timers' : timers'[j] = timers[j]
                 /\ \A n \in writeBuffer :
                       outcome[n] = "ok"
                           => /\ n \in DOMAIN files'
                              /\ files'[n] = [t |-> "json",
                                              docs |-> JsonDocs(collections[n])]
                 /\ ret'.st = "ok"]_vars

\* The timer fired with two collections dirty: the write of "users" failed
\* and was logged, "posts" was written.
C24_Witness ==
    /\ ret.op = "timerFire"
    /\ logged = {"users"}
    /\ written = [c \in Names |-> 1]
    /\ "users" \notin DOMAIN files
    /\ "posts" \in DOMAIN files
    /\ writeBuffer = {}


\* ------------------------------------------------- backup
\* The backup directory after every file of the data directory was copied
\* into it: a copy replaces the file of its name, other files stay.
CopiedInto(target, dir) ==
    [n \in DOMAIN target \cup DOMAIN dir |->
        IF n \in DOMAIN dir THEN dir[n] ELSE target[n]]

\* A backup that copies the files as they are, without flush().
BackupWithoutFlush(outcome) ==
    /\ backups' = CopiedInto(backups, files)
    /\ UNCHANGED defaults
    /\ ret' = [op |-> "backup", st |-> "ok", n |-> 0]
    /\ UNCHANGED <<collections, indexes, writeBuffer, writeTimeout, timers,
                   files, nextId, mutated, written, logged, modelVars>>

\* TMUDatabase.backup(backupPath): flush(), then for every collection whose
\* file exists, copyFileSync of the file into the backup directory.
Backup(outcome) ==
    /\ timers' = ClearedTimers(DB)
    /\ _flushWrites(outcome)
    /\ backups' = CopiedInto(backups, FilesAfter(outcome))
    /\ UNCHANGED defaults
    /\ ret' = [op |-> "backup", st |-> "ok", n |-> 0]
    /\ UNCHANGED <<collections, indexes, writeTimeout, nextId, modelVars>>

BackupNext ==
    \/ StoreCalls
    \/ Tick
    \/ \E i \in TimerIds : \E outcome \in StoreOutcomes : TimerFire(i, outcome)
    \/ \E outcome \in StoreOutcomes : Backup(outcome)

BackupSpec == StoreInit /\ [][BackupNext]_vars

LoadOutcomes == [writeBuffer -> {"ok", "cut"}]

LoadNext ==
    \/ StoreCalls
    \/ Tick
    \/ \E i \in TimerIds : \E outcome \in LoadOutcomes : TimerFire(i, outcome)
    \/ Reopen

LoadSpec == StoreInit /\ [][LoadNext]_vars

\* The file of collection c exists and does not parse.
Malformed(c) == c \in DOMAIN files /\ files[c].t = "corrupt"

\* C26: opening the store on a directory with a malformed collection file
\* succeeds; that collection is empty in memory and every other collection
\* holds the documents of its file. A malformed file stays as it is on
\* disk until a flush writes the collection, which a mutation of it made
\* dirty.
C26_MalformedFileLoadsEmpty ==
    [][/\ Reopen
          => /\ ret'.st = "ok"
             /\ files' = files
             /\ \A c \in Names :
                   collections'[c] =
                       IF c \in DOMAIN files /\ ~Malformed(c)
                       THEN files[c].docs ELSE <<>>
       /\ \A c \in Names :
             Malformed(c) /\ files'[c] # files[c]
                 => /\ c \in writeBuffer /\ c \in mutated
                    /\ \E i \in TimerIds : \E outcome \in LoadOutcomes :
                          TimerFire(i, outcome)]_vars

\* The store was opened on a directory where the file of "users" is
\* malformed and that of "posts" holds a document.
C26_Witness ==
    /\ ret.op = "reopen"
    /\ Malformed("users")
    /\ collections["users"] = <<>>
    /\ "posts" \in DOMAIN files
    /\ ~Malformed("posts")
    /\ collections["posts"] # <<>>
    /\ collections["posts"] = files["posts"].docs


\* ------------------------------------------------- updates without operator
\* Update descriptions none of whose keys is an operator: {f: 2},
\* {a: {b: 1}} and, in dot notation, {'a.b': 2}.
DirectUpdates ==
    {<<Upd("direct", P_f, Num(2))>>,
     <<Upd("direct", P_a, Obj(Num(1)))>>,
     <<Upd("direct", P_ab, Num(2))>>}

\* {$set: D} for an update description D without operator.
AsSet(update) == [i \in 1..Len(update) |-> [update[i] EXCEPT !.op = "$set"]]

\* The store after insertMany into "users" of up to MaxDocs documents.
DirectInit ==
    \E docs \in ListsOf(AlgebraDocs, MaxDocs) : Loaded("users", docs)

DirectNext ==
    \/ \E id \in IdsIn("users"), u \in DirectUpdates :
          UpdateOne("users", <<Lit(P_id, id)>>, u)
    \/ \E id \in IdsIn("users"), u \in DirectUpdates :
          ModelFindByIdAndUpdate(id, u)

DirectSpec == DirectInit /\ [][DirectNext]_vars

\* C27: an update description D without operator keys leaves the documents
\* that {$set: D} would leave, through Collection.updateOne and through
\* Model.findByIdAndUpdate.
C27_DirectUpdateIsSet ==
    [][\A id \in IdsIn("users"), u \in DirectUpdates :
          /\ UpdateOne("users", <<Lit(P_id, id)>>, u)
                => collections' =
                      updateOne(DB, "users", <<Lit(P_id, id)>>, AsSet(u))
                          .db.collections
          /\ ModelFindByIdAndUpdate(id, u)
                => collections' =
                      findByIdAndUpdate(DB, "users", id, AsSet(u))
                          .db.collections]_vars


\* ------------------------------------------------- aggregate, $group
NullV == [t |-> "null"]
\* The string '$' + path, which refers to the field at the path.
Ref(path) == [t |-> "ref", path |-> path]

\* The parameters of a $group stage with one output field, total:
\* {_id: key, total: {$sum: arg}}.
Group(key, arg) == [_id |-> key, op |-> "$sum", arg |-> arg]

\* The Map key _applyGroup files a document under: 'null' for a null _id, the
\* value at the path for a '$field' reference, else the _id given.
GroupKey(doc, key) ==
    IF key = NullV THEN Str("null")
    ELSE IF key.t = "ref" THEN _getNestedValue(doc, key.path)
    ELSE key

\* The keys of the Map in the order they were first set.
RECURSIVE GroupKeys(_, _, _)
GroupKeys(docs, key, seen) ==
    IF docs = <<>> THEN seen
    ELSE LET k == GroupKey(Head(docs), key)
         IN  GroupKeys(Tail(docs), key,
                       IF \E i \in 1..Len(seen) : seen[i] = k
                       THEN seen ELSE Append(seen, k))

\* group._docs of the group with Map key k.
GroupDocsOf(docs, key, k) == SelectSeq(docs, LAMBDA d : GroupKey(d, key) = k)

\* reduce((sum, d) => sum + (value || 0), 0) over numbers and missing
\* values.
RECURSIVE Reduce(_, _, _)
Reduce(docs, path, sum) ==
    IF docs = <<>> THEN sum
    ELSE LET v == _getNestedValue(Head(docs), path)
         IN  Reduce(Tail(docs), path, sum + (IF Truthy(v) THEN v.n ELSE 0))

\* Infinity, and the greater and the smaller of two numbers.
Infinity == [t |-> "inf"]
Greater(x, y) == IF x >= y THEN x ELSE y
Smaller(x, y) == IF x <= y THEN x ELSE y

\* Math.max(...docs.map(d => value || 0)) for a group, which has at least
\* one document.
RECURSIVE MathMax(_, _)
MathMax(docs, path) ==
    LET v == _getNestedValue(Head(docs), path)
        x == IF Truthy(v) THEN v.n ELSE 0
    IN  IF Len(docs) = 1 THEN x ELSE Greater(x, MathMax(Tail(docs), path))

\* Math.min(...docs.map(d => value || Infinity)) for a group: a document
\* whose value is falsy counts as Infinity.
RECURSIVE MathMin(_, _)
MathMin(docs, path) ==
    LET v == _getNestedValue(Head(docs), path)
        x == IF Truthy(v) THEN Num(v.n) ELSE Infinity
        rest == MathMin(Tail(docs), path)
    IN  IF Len(docs) = 1 THEN x
        ELSE IF x = Infinity THEN rest
        ELSE IF rest = Infinity THEN x
        ELSE Num(Smaller(x.n, rest.n))

\* The switch over the operator name, for the documents of one group.
Accumulate(op, docs, path) ==
    CASE op = "$sum" -> Num(Reduce(docs, path, 0))
      [] op = "$max" -> Num(MathMax(docs, path))
      [] op = "$min" -> MathMin(docs, path)

\* Collection._applyGroup(docs, params): one result per Map key. For each
\* output field, opField.startsWith('$') is evaluated before the operator
\* switch, which throws a TypeError when the argument is a number.
_applyGroup(docs, params) ==
    LET keys == GroupKeys(docs, params._id, <<>>)
    IN  IF keys # <<>> /\ params.arg.t = "num"
        THEN [threw |-> TRUE, groups |-> <<>>]
        ELSE [threw |-> FALSE,
              groups |->
                [i \in 1..Len(keys) |->
                    [_id |-> IF keys[i] = Str("null") THEN NullV ELSE keys[i],
                     total |-> Accumulate(params.op,
                                          GroupDocsOf(docs, params._id, keys[i]),
                                          params.arg.path)]]]

\* Collection.aggregate([{$group: params}]) on collection c.
Aggregate(c, params) ==
    LET r == _applyGroup(collections[c], params)
    IN  IF r.threw
        THEN /\ ret' = [op |-> "aggregate", st |-> "TypeError", n |-> 0]
             /\ out' = [docs |-> <<>>, errors |-> <<>>]
             /\ UNCHANGED <<tasks, log>>
             /\ StoreUnchanged
        ELSE Returns("aggregate", r.groups)

\* The documents to group: f and a missing or a number.
GroupableDocs ==
    {Given(Undef, f, a) : f \in {Undef, Num(1), Num(2)},
                          a \in {Undef, Num(1), Num(2)}}

GroupInit ==
    \E docs \in ListsOf(GroupableDocs, MaxSorted) : Loaded("posts", docs)

\* $group by null, by a or by the literal 1, with {$sum: '$f'} or {$sum: 1}.
GroupStages ==
    {Group(key, arg) : key \in {NullV, Ref(P_a), Num(1)},
                       arg \in {Ref(P_f), Num(1)}}

GroupNext == \E params \in GroupStages : Aggregate("posts", params)

GroupSpec == GroupInit /\ [][GroupNext]_vars

\* The _id of the group a document belongs to.
GroupIdOf(doc, key) ==
    IF key = NullV THEN NullV
    ELSE IF key.t = "ref" THEN _getNestedValue(doc, key.path)
    ELSE key

\* The sum of f over the documents, a missing f counting as 0.
SumF(docs) == Reduce(docs, P_f, 0)

\* C28: a $group stage with a $sum accumulator returns groups that
\* partition the documents by group key, each carrying the sum of the
\* referenced field over its documents, or their number for {$sum: 1}.
C28_GroupSums ==
    [][\A params \in GroupStages :
          Aggregate("posts", params)
              => LET docs == collections["posts"]
                     groups == out'.docs
                     in(g) == SelectSeq(docs,
                                LAMBDA d : GroupIdOf(d, params._id) = g._id)
                 IN  /\ ret'.st = "ok"
                     /\ \A i, j \in 1..Len(groups) :
                           groups[i]._id = groups[j]._id => i = j
                     /\ \A i \in 1..Len(docs) :
                           \E j \in 1..Len(groups) :
                               groups[j]._id = GroupIdOf(docs[i], params._id)
                     /\ \A j \in 1..Len(groups) :
                           /\ in(groups[j]) # <<>>
                           /\ groups[j].total =
                                 IF params.arg = Num(1)
                                 THEN Num(Len(in(groups[j])))
                                 ELSE Num(SumF(in(groups[j])))]_vars


\* ------------------------------------------------- collection and createIndex
\* TMUDatabase.collection(name): a name without an array in
\* this.collections gets [] and, in this.indexes, {}.
collection(db, name) ==
    IF name \in DOMAIN db.collections THEN db
    ELSE [db EXCEPT !.collections = (name :> <<>>) @@ @,
                    !.indexes = (name :> <<>>) @@ @]

\* TMUDatabase.createIndex(collectionName, field, {unique}): the index is
\* registered under the name, which gets {} first when it has no indexes
\* yet, and built from the documents the collection holds, if any.
createIndex(db, name, path, unique) ==
    LET docs == IF name \in DOMAIN db.collections
                THEN db.collections[name] ELSE <<>>
        index == [unique |-> unique, data |-> IndexData(docs, path)]
    IN  [db EXCEPT !.indexes =
            (name :> ((path :> index) @@ IndexesOf(db, name))) @@ @]

\* A call that changes the registry of collections and indexes only.
Registers(op, db) ==
    /\ collections' = db.collections
    /\ indexes' = db.indexes
    /\ ret' = [op |-> op, st |-> "ok", n |-> 0]
    /\ UNCHANGED <<writeBuffer, writeTimeout, timers, files, backups, defaults, nextId,
                   mutated, written, logged, modelVars>>

CollectionCall(name) == Registers("collection", collection(DB, name))
CreateIndex(name, path, unique) ==
    Registers("createIndex", createIndex(DB, name, path, unique))

\* new TMUDatabase(dbPath) on an empty directory: no collection and no
\* index is known yet.
RegistryInit ==
    /\ collections = <<>>
    /\ indexes = <<>>
    /\ writeBuffer = {}
    /\ writeTimeout = 0
    /\ timers = <<>>
    /\ files = <<>>
    /\ backups = <<>>
    /\ defaults = DefaultArr(<<>>)
    /\ nextId = 1
    /\ ret = [op |-> "init", st |-> "ok", n |-> 0]
    /\ mutated = {}
    /\ written = [c \in Names |-> 0]
    /\ logged = {}
    /\ out = [docs |-> <<>>, errors |-> <<>>]
    /\ tasks = <<>>
    /\ log = <<>>

\* collection and createIndex in any order, and inserts through the
\* Collection that collection(name) returned.
RegistryNext ==
    \/ \E name \in Names : CollectionCall(name)
    \/ \E name \in Names, path \in {P_id, P_f}, unique \in BOOLEAN :
          CreateIndex(name, path, unique)
    \/ \E name \in DOMAIN collections, f \in {Undef, Num(1)} :
          InsertOne(name, Given(Undef, f, Undef))

RegistrySpec == RegistryInit /\ [][RegistryNext]_vars

\* C29: collection(name) leaves the documents and the index registrations
\* the name already has as they are, in every order of collection and
\* createIndex calls.
C29_CollectionKeepsRegistrations ==
    [][\A name \in Names :
          CollectionCall(name)
              => /\ name \in DOMAIN collections
                       => collections'[name] = collections[name]
                 /\ name \in DOMAIN indexes
                       => /\ name \in DOMAIN indexes'
                          /\ indexes'[name] = indexes[name]]_vars


\* ------------------------------------------------- debounce timer
\* A step in which a call changed the documents of a collection.
DocumentsChanged == collections' # collections /\ ~Reopen

\* C30: every mutation restarts the debounce timer. At most one timer is
\* live at any time; a step that changes documents leaves the one live
\* timer, the one writeTimeout names, with the whole delay to run; and a
\* timer fires only when its whole delay has passed since it was started.
C30_MutationRestartsTimer ==
    /\ [](Cardinality(DOMAIN timers) <= 1)
    /\ [][DocumentsChanged
             => /\ DOMAIN timers' = {writeTimeout'}
                /\ timers'[writeTimeout'] = WRITE_DELAY]_vars
    /\ [][\A i \in TimerIds :
             (\E outcome \in StoreOutcomes : TimerFire(i, outcome))
                 => i = writeTimeout /\ timers[i] = 0]_vars


\* ------------------------------------------------- schema default arrays
\* The most items an array of the model holds.
MaxItems == 2

\* The schema definition of a Model on "posts": a number f, and an array a
\* declared with `default: []`, whose default is the one array object the
\* schema holds.
ArrayDefinition ==
    << Rules("f", "Number", FALSE, FALSE, Undef, Undef, Undef),
       Rules("a", "Array", FALSE, FALSE, defaults, Undef, Undef) >>

\* The value is the schema default's array object.
IsDefault(v) == v.t = "arr" /\ "of" \in DOMAIN v

\* The default's array object after a handler ran on the documents: what a
\* holder of the object shows, since a push into the array found at a
\* document's field is a push into the object itself.
PushedInto(docs) ==
    IF \E i \in 1..Len(docs) : IsDefault(docs[i].a) /\ docs[i].a # defaults
    THEN (CHOOSE doc \in {docs[i] : i \in 1..Len(docs)} :
             IsDefault(doc.a) /\ doc.a # defaults).a
    ELSE defaults

\* The documents as they read once the default's array object is the value:
\* every document that holds the object shows the same contents.
SeenBy(docs, value) ==
    [i \in 1..Len(docs) |->
        IF IsDefault(docs[i].a) THEN [docs[i] EXCEPT !.a = value]
        ELSE docs[i]]

\* The store and the schema take the state an update handler on "posts"
\* left.
UpdateSettles(op, result) ==
    \E r \in {result} :
        LET value == PushedInto(r.db.collections["posts"])
        IN  /\ CanSave(DB)
            /\ WithinBounds(r.db)
            /\ \A i \in 1..Len(r.db.collections["posts"]) :
                  r.db.collections["posts"][i].a.t = "arr"
                      => Len(r.db.collections["posts"][i].a.s) <= MaxItems
            /\ collections' = [r.db.collections EXCEPT
                                  !["posts"] = SeenBy(@, value)]
            /\ defaults' = value
            /\ indexes' = r.db.indexes
            /\ writeBuffer' = r.db.writeBuffer
            /\ writeTimeout' = r.db.writeTimeout
            /\ timers' = r.db.timers
            /\ nextId' = r.db.nextId
            /\ ret' = [op |-> op, st |-> r.st, n |-> r.n]
            /\ mutated' = IF r.n > 0 \/ collections' # collections
                           THEN mutated \cup {"posts"} ELSE mutated
            /\ UNCHANGED <<files, backups, written, logged, modelVars>>

\* updateOne({_id: id}, update) and findByIdAndUpdate(id, update) on
\* "posts".
UpdateOneById(id, update) ==
    UpdateSettles("updateOne",
                  updateOne(DB, "posts", <<Lit(P_id, id)>>, update))
FindByIdAndUpdateById(id, update) ==
    UpdateSettles("findByIdAndUpdate",
                  findByIdAndUpdate(DB, "posts", id, update))

\* Created without a (the default fills it) or with an array of its own.
ArrayDocs == {Given(Undef, Undef, Undef), Given(Undef, Undef, Arr(<<>>))}

\* One update per operator the claim names.
ArrayUpdates ==
    {<<Upd("$set", P_f, Num(1))>>, <<Upd("$inc", P_f, Num(1))>>}
    \cup {<<Upd(op, P_a, Num(1))>> : op \in {"$push", "$pull", "$addToSet"}}

ArrayNext ==
    \/ \E data \in ArrayDocs : CreateAs(ArrayDefinition, data)
    \/ \E id \in IdsIn("posts"), u \in ArrayUpdates : UpdateOneById(id, u)
    \/ \E id \in IdsIn("posts"), u \in ArrayUpdates :
          FindByIdAndUpdateById(id, u)

ArraySpec == Opened(SchemaA) /\ [][ArrayNext]_vars

\* C31: an update of the document with one id, by $set, $inc, $push, $pull
\* or $addToSet through updateOne or findByIdAndUpdate, leaves every other
\* document of the collection and the schema's default as they were, also
\* when the documents took their array from the schema default.
C31_UpdateLeavesOthersAndDefault ==
    [][\A id \in IdsIn("posts"), u \in ArrayUpdates :
          (UpdateOneById(id, u) \/ FindByIdAndUpdateById(id, u))
              => /\ defaults' = defaults
                 /\ Len(collections'["posts"]) = Len(collections["posts"])
                 /\ \A i \in 1..Len(collections["posts"]) :
                       collections["posts"][i]._id # id
                           => collections'["posts"][i]
                                 = collections["posts"][i]]_vars


\* ------------------------------------------------- save on a held document
\* wrapped.save() on the wrapped document the last Model call returned,
\* which the caller kept while other calls ran, after the caller set its a
\* to the value touch (nothing for undefined) and left f alone: the
\* pre-save hooks, then findByIdAndUpdate(this._id, {$set: this}).
SaveHeld(touch) ==
    /\ out.docs # <<>>
    /\ LET held == _wrapDocument(out.docs[1])
           wrapped == RunHooks(PreHooks,
                               IF touch = Undef THEN held
                               ELSE [held EXCEPT !.a = touch])
           index == FindIndex(collections[ModelName], wrapped._id)
       IN  \E r \in {findByIdAndUpdate(DB, ModelName, wrapped._id,
                                       SetAll(wrapped))} :
              Settles("save", r,
                      IF index = 0 THEN <<>>
                      ELSE <<r.db.collections[ModelName][index]>>)

\* Another operation on the stored document while the caller holds the
\* wrapped one.
OtherUpdates == {<<Upd("$inc", P_f, Num(1))>>, <<Upd("$set", P_f, Num(0))>>}

HeldNext ==
    \/ \E f \in {Num(1), Num(2)} : InsertOne(ModelName, Given(Undef, f, Undef))
    \/ \E id \in LookupIds : FindById(id)
    \/ \E id \in IdsIn(ModelName), u \in OtherUpdates :
          FindByIdAndUpdate(ModelName, id, u)
    \/ \E touch \in {Undef, Str("a")} : SaveHeld(touch)

HeldSpec == Opened(SchemaA) /\ [][HeldNext]_vars

\* C32: save() on a document fetched earlier, whose f the caller did not
\* touch, leaves the stored document's f as the store holds it, with
\* whatever another operation wrote there since the fetch.
C32_SaveKeepsOtherChanges ==
    [][\A touch \in {Undef, Str("a")} :
          SaveHeld(touch)
              => LET index == FindIndex(collections[ModelName],
                                        out.docs[1]._id)
                 IN  index # 0
                        => collections'[ModelName][index].f
                              = collections[ModelName][index].f]_vars


\* ------------------------------------------------- unique index under updates
\* Inserts, updates and deletes on "users", whose schema declares a unique
\* index on f before any document exists.
UniqueNext ==
    \/ \E f \in {Num(1), Num(2)} : InsertOne("users", Given(Undef, f, Undef))
    \/ \E q \in ManyQueries : UpdateOne("users", q, SetF)
    \/ \E q \in ManyQueries : UpdateMany("users", q, SetF)
    \/ \E id \in IdsIn("users") : FindByIdAndUpdate("users", id, SetF)
    \/ \E q \in ManyQueries : DeleteOne("users", q)
    \/ \E q \in ManyQueries : DeleteMany("users", q)

UniqueSpec == Opened(SchemaA) /\ [][UniqueNext]_vars

\* C33: on a field whose index is unique, no two documents of the
\* collection hold the same value.
C33_UniqueFieldValues ==
    \A c \in DOMAIN collections :
        \A p \in DOMAIN indexes[c] :
            indexes[c][p].unique
                => \A i, j \in 1..Len(collections[c]) :
                      (/\ i # j
                       /\ _getNestedValue(collections[c][i], p) # Undef)
                          => _getNestedValue(collections[c][i], p)
                                # _getNestedValue(collections[c][j], p)


\* ------------------------------------------------- POST /:id/vote
\* An election is a document of "posts": a holds its voters, one item per
\* recorded vote (the user's id), and f the votes of its one candidate.
\* election.maxVotes || 1, for an election created without maxVotes.
MaxVotes == 1

\* The users who send vote requests.
VoterIds == {Str("a"), Str("b")}

\* The elections of the model: created with arrays of their own and a
\* candidate without votes.
Elections == {Given(Undef, Num(0), Arr(<<>>))}

\* The stored election with the id.
ElectionAt(e) == collections["posts"][FindIndex(collections["posts"], e)]

\* A vote request arrives: the handler runs up to `await
\* Election.findById(req.params.id)`. The wrapped election it gets is a
\* one-level copy, its voters and candidates are the stored arrays.
VoteStart(e, user, ballot) ==
    /\ \E t \in TaskIds : t \notin DOMAIN tasks
    /\ tasks' = TaskAt(NewTask, [op |-> "vote", pc |-> "found",
                                 election |-> e, user |-> user,
                                 ballot |-> ballot])
    /\ UNCHANGED <<ret, out, log, defaults>>
    /\ StoreUnchanged

\* The handler goes on after the first await: the period is open, and
\* voters.some(v => v.user === req.user.id) answers 400 for a user the
\* voters array holds by now; otherwise the handler runs up to `await
\* User.findById(req.user.id)`.
VoteCheck(t) ==
    /\ t \in DOMAIN tasks
    /\ tasks[t].op = "vote" /\ tasks[t].pc = "found"
    /\ IF Includes(ElectionAt(tasks[t].election).a.s, tasks[t].user)
       THEN /\ tasks' = TaskGone(t)
            /\ ret' = [op |-> "vote", st |-> "already voted", n |-> 0]
       ELSE /\ tasks' = TaskAt(t, [tasks[t] EXCEPT !.pc = "checked"])
            /\ UNCHANGED ret
    /\ UNCHANGED <<out, log, defaults>>
    /\ StoreUnchanged

\* The handler goes on after the second await: 400 for more candidateIds
\* than maxVotes, else one vote added to the candidate's votes per
\* candidateId, in the stored candidate object, and findByIdAndUpdate with
\* {$set: {candidates}, $push: {voters: {user, votedAt}}}.
VoteRecord(t) ==
    /\ t \in DOMAIN tasks
    /\ tasks[t].op = "vote" /\ tasks[t].pc = "checked"
    /\ tasks' = TaskGone(t)
    /\ UNCHANGED <<out, log>>
    /\ IF tasks[t].ballot > MaxVotes
       THEN /\ ret' = [op |-> "vote", st |-> "too many", n |-> 0]
            /\ UNCHANGED defaults
            /\ StoreUnchanged
       ELSE LET e == tasks[t].election
                votes == ElectionAt(e).f.n + tasks[t].ballot
            IN  \E r \in {findByIdAndUpdate(DB, "posts", e,
                              <<Upd("$set", P_f, Num(votes)),
                                Upd("$push", P_a, tasks[t].user)>>)} :
                   /\ Applies("posts", r)
                   /\ ret' = [op |-> "vote", st |-> r.st, n |-> r.n]

VoteInit == \E election \in Elections : Loaded("posts", <<election>>)

VoteNext ==
    \/ \E e \in IdsIn("posts"), user \in VoterIds, ballot \in 1..MaxVotes + 1 :
          VoteStart(e, user, ballot)
    \/ \E t \in TaskIds : VoteCheck(t)
    \/ \E t \in TaskIds : VoteRecord(t)

VoteSpec == VoteInit /\ [][VoteNext]_vars

\* C34: in every election a user is in voters at most once and the
\* candidates' votes are at most maxVotes per voter, however the requests
\* interleave; and a request of a user who is in voters changes nothing.
C34_OneBallotPerVoter ==
    /\ [](\A i \in 1..Len(collections["posts"]) :
             LET d == collections["posts"][i]
             IN  /\ \A j, k \in 1..Len(d.a.s) : j # k => d.a.s[j] # d.a.s[k]
                 /\ d.f.n <= MaxVotes * Len(d.a.s))
    /\ [][\A t \in DOMAIN tasks :
             /\ tasks[t].op = "vote"
             /\ Includes(ElectionAt(tasks[t].election).a.s, tasks[t].user)
             /\ (VoteCheck(t) \/ VoteRecord(t))
             => UNCHANGED collections]_vars


\* ------------------------------------------------- unwritten changes
\* Every writeFileSync of a flush succeeds.
AllWritten == [c \in writeBuffer |-> "ok"]

\* The persistence scenarios on a disk that never fails, with updateMany.
DirtyNext ==
    \/ StoreCalls
    \/ \E u \in {SetAB, SetABThenThrow} : UpdateMany("users", <<>>, u)
    \/ Tick
    \/ \E i \in TimerIds : TimerFire(i, AllWritten)
    \/ Flush(AllWritten)

DirtySpec == StoreInit /\ [][DirtyNext]_vars

\* The documents the store holds for c are those last written to its file:
\* the file holds their JSON text, or no file was written and none exist.
AsWritten(c) ==
    \/ FileHolds(files, collections, c)
    \/ c \notin DOMAIN files /\ collections[c] = <<>>

\* C35: a collection whose documents in memory differ from what was last
\* written to its file is in the dirty set.
C35_UnwrittenIsDirty ==
    \A c \in Names : ~AsWritten(c) => c \in writeBuffer


\* ------------------------------------------------- pending write and dirty set
\* A write triggered by the debounce is pending: a timer started by
\* _saveCollection is live, due or not.
WritePending == DOMAIN timers # {}

\* The persistence scenarios, whatever the event loop's scheduling.
PendingSpec == StoreInit /\ [][StoreNext]_vars

OneQueries == {<<>>, <<Lit(P_f, Num(1))>>, <<Lit(P_f, Num(2))>>}
OneUpdates == {SetAB, UnsetF}

\* Inserts, updateOne and deleteOne on "users", and findByIdAndUpdate with
\* an update that sets the _id.
OneNext ==
    \/ \E f \in {Num(1), Num(2)} : InsertOne("users", Given(Undef, f, Undef))
    \/ \E q \in OneQueries, u \in OneUpdates : UpdateOne("users", q, u)
    \/ \E q \in OneQueries : DeleteOne("users", q)
    \/ \E id, other \in IdsIn("users") :
          FindByIdAndUpdate("users", id, SetId(other))

OneSpec == Opened(SchemaA) /\ [][OneNext]_vars

\* The position of the first document, in insertion order, that matches
\* the query; 0 when none does.
FirstMatch(docs, q) ==
    IF \E i \in 1..Len(docs) : _matchDocument(docs[i], q)
    THEN CHOOSE i \in 1..Len(docs) :
            /\ _matchDocument(docs[i], q)
            /\ \A j \in 1..(i - 1) : ~_matchDocument(docs[j], q)
    ELSE 0

\* C37: updateOne(q, u) leaves the number of documents and every document
\* but the first that matches q as they were; deleteOne(q) removes that
\* document or nothing, and the others keep their order.
C37_OnlyFirstMatchAffected ==
    [][\A q \in OneQueries :
          LET docs == collections["users"]
              first == FirstMatch(docs, q)
          IN  /\ \A u \in OneUpdates :
                    UpdateOne("users", q, u)
                        => /\ Len(collections'["users"]) = Len(docs)
                           /\ \A i \in 1..Len(docs) :
                                 i # first => collections'["users"][i] = docs[i]
              /\ DeleteOne("users", q)
                    => \/ collections'["users"] = docs
                       \/ /\ first # 0
                          /\ collections'["users"] = RemoveAt(docs, first)]_vars


\* ------------------------------------------------- $group with $max and $min
\* {_id: key, total: {[op]: arg}}.
GroupWith(key, op, arg) == [_id |-> key, op |-> op, arg |-> arg]

\* Documents whose f is an integer, negative, 0 or positive, and whose a
\* is 1 or 2.
ExtremeDocs ==
    {Given(Undef, Num(f), Num(a)) : f \in -1..1, a \in 1..2}

ExtremeInit ==
    \E docs \in ListsOf(ExtremeDocs, MaxSorted) : Loaded("posts", docs)

\* $group by null or by a, with {$max: '$f'} or {$min: '$f'}.
ExtremeStages ==
    {GroupWith(key, op, Ref(P_f)) : key \in {NullV, Ref(P_a)},
                                    op \in {"$max", "$min"}}

ExtremeNext == \E params \in ExtremeStages : Aggregate("posts", params)

ExtremeSpec == ExtremeInit /\ [][ExtremeNext]_vars

\* The values of f in the documents, and the greatest and the least of a
\* set of integers.
ValuesOfF(docs) == {docs[i].f.n : i \in 1..Len(docs)}
Greatest(S) == CHOOSE m \in S : \A x \in S : x <= m
Least(S) == CHOOSE m \in S : \A x \in S : m <= x

\* C38: a $group stage with {$max: '$f'} or {$min: '$f'}, over documents
\* that all hold an integer f, returns for every group the greatest,
\* respectively the least, f of the group's documents, whatever the
\* values: negative, 0 or positive.
C38_GroupExtremes ==
    [][\A params \in ExtremeStages :
          Aggregate("posts", params)
              => LET docs == collections["posts"]
                     groups == out'.docs
                     in(g) == SelectSeq(docs,
                                LAMBDA d : GroupIdOf(d, params._id) = g._id)
                 IN  /\ ret'.st = "ok"
                     /\ \A i \in 1..Len(docs) :
                           \E j \in 1..Len(groups) :
                               groups[j]._id = GroupIdOf(docs[i], params._id)
                     /\ \A j \in 1..Len(groups) :
                           /\ in(groups[j]) # <<>>
                           /\ groups[j].total =
                                 IF params.op = "$max"
                                 THEN Num(Greatest(ValuesOfF(in(groups[j]))))
                                 ELSE Num(Least(ValuesOfF(in(groups[j]))))]_vars

====
